---- MODULE Spec2Model ----
(***************************************************************************)
(* Buffered file I/O of cusiman7/file (the result<T, error> version of     *)
(* file.h): the raw descriptor layer, the buffered layer and the OS file   *)
(* table they sit on.  Bytes are abstract tokens; sequences are 1-based,   *)
(* so buffer_[i] of the source is mem[i + 1] here.                         *)
(***************************************************************************)
EXTENDS Integers, Sequences, FiniteSets, TLC

\* ------------------------------------------------------------------ bounds
MaxFileLen == 3      \* longest file content drawn in Init
MaxCount == 2        \* largest count passed to a read
MaxVecCap == 2       \* largest capacity of the vector given to read_into_capacity
MaxWriteLen == 5     \* most bytes passed to the writes on one stream
MaxLines == 2        \* most logical lines in the LF/CRLF comparison
MaxLineLen == 2      \* longest logical line in the LF/CRLF comparison
SizeBits == 16       \* width the model gives size_t (the values stay far below it)

\* ------------------------------------------------------------- vocabulary
LF == "LF"
CR == "CR"
NUL == "NUL"                                  \* a byte of a hole left by a seek past the end
Uninit == "??"                                \* a byte of memory nobody has written
DataBytes == {"a", LF, CR}
Bytes == DataBytes \cup {NUL}
BlockSizes == {2, 3}                          \* st_blksize values the OS reports
Paths == {"p", "q"}
HandleIds == {1, 2}
Fds == {3, 4}
BufIds == {1, 2}
Modes == {"read", "write", "append"}
SeekModes == {"set", "cur", "end"}

Min(a, b) == IF a <= b THEN a ELSE b
SizeMod == 2 ^ SizeBits
\* size_t arithmetic
USub(a, b) == (a - b) % SizeMod
\* the conversion size_t -> int64_t of a value computed modulo SizeMod
ToSigned(x) == IF x % SizeMod >= SizeMod \div 2 THEN (x % SizeMod) - SizeMod ELSE x % SizeMod

Range(f) == {f[x] : x \in DOMAIN f}
SeqsUpTo(S, n) == UNION {[1..k -> S] : k \in 0..n}

\* to_error: the errno values the model produces
to_error(errno) ==
    CASE errno = "EACCES" -> "access"
      [] errno = "EBADF" -> "bad_file"
      [] errno = "ENOENT" -> "does_not_exist"
      [] errno = "EEXIST" -> "exists"
      [] errno = "EMFILE" -> "file_limit"
      [] errno = "EINTR" -> "interrupted"
      [] errno = "EINVAL" -> "invalid_argument"
      [] errno = "EIO" -> "io"
      [] errno = "ENOSPC" -> "no_space"
      [] OTHER -> "unknown"

VARIABLES
    disk,    \* disk[p]: [exists, data], the bytes of the file at path p
    fdt,     \* fdt[fd]: [open, path, off, app], the OS open-file table
    heap,    \* heap[b]: [alloc, mem], the malloc'ed buffers
    h,       \* h[i]: the file object in slot i (a raw plus the buffer fields)
    ret,     \* what the last operation was and what it returned
    g,       \* history of the run that the code does not keep
    iter     \* the lines_iterator of the running range-for, if any

vars == <<disk, fdt, heap, h, ret, g, iter>>

\* ---------------------------------------------------------------- objects
\* class raw (fd_, mode_, size_, block_size_) inside class file (buffer_, buf_cap_,
\* buf_size_, buf_i_); live says whether the object exists
NoHandle ==
    [live |-> FALSE, fd_ |-> -1, mode_ |-> "read", size_ |-> 0, block_size_ |-> 0,
     buffer_ |-> 0, buf_cap_ |-> 0, buf_size_ |-> 0, buf_i_ |-> 0]

NoFd == [open |-> FALSE, path |-> "p", off |-> 0, app |-> FALSE]
NoBuf == [alloc |-> FALSE, mem |-> <<>>]
NoRet ==
    [op |-> "none", hid |-> 0, status |-> "none", err |-> "none", n |-> 0,
     out |-> <<>>, from |-> 0, seeked |-> -1, arg |-> 0, arg2 |-> ""]

\* class lines_iterator: f_ (the slot hid), line_ (ok with the string line, or
\* the error err) and eof_; live says whether the iterator exists
NoIter == [live |-> FALSE, hid |-> 0, ok |-> TRUE, line |-> <<>>, err |-> "none",
           eof_ |-> FALSE]

\* The world the operations act on, as one value
World == [disk |-> disk, fdt |-> fdt, heap |-> heap, h |-> h, g |-> g]

\* the world after the step
NextWorld == [disk |-> disk', fdt |-> fdt', heap |-> heap', h |-> h', g |-> g']

\* The part of the world one handler call works on: the object f, its buffer
\* memory mem, and the offset off and bytes data of the file behind its fd;
\* calls counts the raw calls made, closes collects the fds given to ::close,
\* fills the file offsets at which a raw read started, handed the bytes given
\* to ::write.
Ctx(w, i) ==
    LET f == w.h[i]
        e == IF f.fd_ \in Fds THEN w.fdt[f.fd_] ELSE NoFd
    IN  [f |-> f,
         mem |-> IF f.buffer_ \in BufIds THEN w.heap[f.buffer_].mem ELSE <<>>,
         off |-> e.off,
         app |-> e.app,
         calls |-> 0,
         closes |-> {},
         fills |-> {},
         handed |-> <<>>,
         data |-> IF f.fd_ \in Fds /\ e.open THEN w.disk[e.path].data ELSE <<>>]

\* The world after the call on slot i ended with c
Put(w, i, c) ==
    LET f0 == w.h[i]
        fd == f0.fd_
        b == f0.buffer_
        isOpen == fd \in Fds /\ w.fdt[fd].open
        fdt1 == IF isOpen THEN [w.fdt EXCEPT ![fd].off = c.off] ELSE w.fdt
        disk1 == IF isOpen THEN [w.disk EXCEPT ![w.fdt[fd].path].data = c.data] ELSE w.disk
    IN  [w EXCEPT !.disk = disk1,
                  !.fdt = [x \in Fds |-> IF x \in c.closes THEN NoFd ELSE fdt1[x]],
                  !.heap = IF b \in BufIds THEN [w.heap EXCEPT ![b].mem = c.mem] ELSE w.heap,
                  !.h[i] = c.f]

\* raw::closed
closed(f) == f.fd_ = -1
\* raw::can_read
can_read(f) == ~closed(f) /\ f.mode_ = "read"
\* a check that only asks whether the descriptor is open
NotClosed(f) == f.fd_ # -1

\* raw::can_write
can_write(f) == ~closed(f) /\ (f.mode_ = "write" \/ f.mode_ = "append")

\* buf_size_ - buf_i_ as the size_t the code computes
Available(f) == USub(f.buf_size_, f.buf_i_)

\* buffer_[i]; env.junk stands for whatever lies outside the written memory
MemAt(mem, i, env) ==
    IF i >= 0 /\ i < Len(mem) /\ mem[i + 1] # Uninit THEN mem[i + 1] ELSE env.junk
\* the copy taken from buffer_ instead of buffer_ + i
SpanFromBufferStart(mem, i, n, env) == [k \in 1..n |-> MemAt(mem, k - 1, env)]
\* the n bytes buffer_ + i .. buffer_ + i + n
Span(mem, i, n, env) == [k \in 1..n |-> MemAt(mem, i + k - 1, env)]
\* whether buffer_ + i .. buffer_ + i + n lies inside the allocation
InBounds(mem, i, n) == n = 0 \/ (i >= 0 /\ i + n <= Len(mem))


\* ------------------------------------------------------------ raw layer
\* What the OS does in one handler call: a raw read or write moves at most
\* env.chunk bytes, the raw call number env.failAt (0: none) fails with
\* env.errno, and env.junk is the byte found in memory nobody wrote.
Result(c, status, err, n, out) ==
    [c |-> c, status |-> status, err |-> err, n |-> n, out |-> out]
Fails(c, env) == env.failAt = c.calls + 1

\* raw::read on the buffer of the file object: one ::read(fd_, buffer, count)
RawRead(c, count, env) ==
    IF ~can_read(c.f) THEN Result(c, "error", "bad_file", 0, <<>>)
    ELSE IF Fails(c, env)
    THEN Result([c EXCEPT !.calls = @ + 1], "error", to_error(env.errno), 0, <<>>)
    ELSE LET left == IF c.off >= Len(c.data) THEN 0 ELSE Len(c.data) - c.off
             n == Min(Min(count, env.chunk), left)
         IN  Result([c EXCEPT !.calls = @ + 1,
                              !.fills = @ \cup {c.off},
                              !.off = @ + n,
                              !.mem = [k \in 1..Len(c.mem) |->
                                          IF k <= n THEN c.data[c.off + k] ELSE c.mem[k]]],
                    "ok", "none", n, <<>>)

\* the file bytes after ::write of bytes at offset off (a hole reads as NUL)
Overwrite(data, off, bytes) ==
    [k \in 1..(IF off + Len(bytes) > Len(data) THEN off + Len(bytes) ELSE Len(data)) |->
        IF k > off /\ k <= off + Len(bytes) THEN bytes[k - off]
        ELSE IF k <= Len(data) THEN data[k] ELSE NUL]

\* raw::write of the first count bytes of the buffer: one ::write(fd_, buffer, count)
RawWrite(c, count, env) ==
    IF ~can_write(c.f) THEN Result(c, "error", "bad_file", 0, <<>>)
    ELSE IF Fails(c, env)
    THEN Result([c EXCEPT !.calls = @ + 1], "error", to_error(env.errno), 0, <<>>)
    ELSE LET n == Min(count, env.chunk)
             at == IF c.app THEN Len(c.data) ELSE c.off
         IN  Result([c EXCEPT !.calls = @ + 1,
                              !.handed = @ \o Span(c.mem, 0, count, env),
                              !.off = at + n,
                              !.data = IF n = 0 THEN c.data
                                       ELSE Overwrite(c.data, at, Span(c.mem, 0, n, env))],
                    "ok", "none", n, <<>>)

\* raw::seek: ::lseek(fd_, offset, whence)
RawSeek(c, offset, mode) ==
    IF closed(c.f) THEN Result(c, "error", "bad_file", 0, <<>>)
    ELSE LET to == CASE mode = "set" -> offset
                     [] mode = "cur" -> c.off + offset
                     [] mode = "end" -> Len(c.data) + offset
         IN  IF to < 0 THEN Result(c, "error", to_error("EINVAL"), 0, <<>>)
             ELSE Result([c EXCEPT !.off = to], "ok", "none", to, <<>>)

\* raw::tell
RawTell(c) == RawSeek(c, 0, "cur")

\* raw::sync: ::fsync(fd_)
RawSync(c, env) ==
    IF ~can_write(c.f) THEN Result(c, "error", "bad_file", 0, <<>>)
    ELSE IF Fails(c, env) THEN Result(c, "error", to_error(env.errno), 0, <<>>)
    ELSE Result(c, "ok", "none", 0, <<>>)


\* ------------------------------------------------------- buffered reads
\* a refill that rewinds buf_i_ when the raw read fails
RefillRewindsOnError(c, env) ==
    LET r == RawRead(c, c.f.buf_cap_, env)
    IN  IF r.status # "ok" THEN [r EXCEPT !.c.f.buf_i_ = 0]
        ELSE Result([r.c EXCEPT !.f.buf_size_ = r.n, !.f.buf_i_ = 0], "ok", "none", r.n, <<>>)

\* the refill of the read loops: file_.read(buffer_, buf_cap_), then
\* buf_size_ = the count read and buf_i_ = 0
Refill(c, env) ==
    LET r == RawRead(c, c.f.buf_cap_, env)
    IN  IF r.status # "ok" THEN r
        ELSE Result([r.c EXCEPT !.f.buf_size_ = r.n, !.f.buf_i_ = 0], "ok", "none", r.n, <<>>)

\* memcpy(buffer, buffer_ + buf_i_, copy_size) in file::read(void*, size_t):
\* the destination is always the start of the caller's buffer
CopyOut(out, c, copy_size, env) ==
    [k \in 1..Len(out) |-> IF k <= copy_size THEN MemAt(c.mem, c.f.buf_i_ + k - 1, env)
                           ELSE out[k]]

RECURSIVE ReadBufLoop(_, _, _, _, _)
\* the loop of file::read(void*, size_t)
ReadBufLoop(c, count, read, out, env) ==
    LET available == Available(c.f)
        copy_size == Min(USub(count, read), available)
    IN  IF ~InBounds(c.mem, c.f.buf_i_, copy_size) THEN Result(c, "ub", "none", read, out)
        ELSE
        LET out1 == CopyOut(out, c, copy_size, env)
            c1 == [c EXCEPT !.f.buf_i_ = @ + copy_size]
            read1 == read + copy_size
        IN  IF read1 = count THEN Result(c1, "ok", "none", read1, out1)
            ELSE LET r == Refill(c1, env)
                 IN  IF r.status # "ok" THEN Result(r.c, "error", r.err, 0, out1)
                     ELSE IF r.c.f.buf_size_ = 0 THEN Result(r.c, "ok", "none", read1, out1)
                     ELSE ReadBufLoop(r.c, count, read1, out1, env)

\* file::read(void* buffer, size_t count); the caller's buffer starts unwritten
ReadBuf(c, count, env) ==
    IF ~can_read(c.f) THEN Result(c, "error", "bad_file", 0, <<>>)
    ELSE ReadBufLoop(c, count, 0, [k \in 1..count |-> Uninit], env)

\* the remaining count without the bytes still unread in the buffer
RemainingNoBuffered(c) ==
    LET tell_res == RawTell(c)
    IN  IF tell_res.status # "ok" THEN tell_res
        ELSE Result(c, "ok", "none", ToSigned(c.f.size_ - tell_res.n), <<>>)

\* a remainder that is never negative
RemainingClamped(c) ==
    LET tell_res == RawTell(c)
        n == ToSigned(c.f.size_ - tell_res.n + Available(c.f))
    IN  IF tell_res.status # "ok" THEN tell_res
        ELSE Result(c, "ok", "none", IF n < 0 THEN 0 ELSE n, <<>>)

\* count = size() - tell() + available for a negative count (read and read_bytes)
Remaining(c) ==
    LET tell_res == RawTell(c)
    IN  IF tell_res.status # "ok" THEN tell_res
        ELSE Result(c, "ok", "none",
                    ToSigned(c.f.size_ - tell_res.n + Available(c.f)), <<>>)

\* a read that takes what one refill delivers and returns
ReadStrOneFill(c, count, read, str, env) ==
    LET copy_size == Min(USub(count, read), Available(c.f))
        str1 == str \o Span(c.mem, c.f.buf_i_, copy_size, env)
        c1 == [c EXCEPT !.f.buf_i_ = @ + copy_size]
        read1 == read + copy_size
    IN  IF read1 = count THEN Result(c1, "ok", "none", read1, str1)
        ELSE LET r == Refill(c1, env)
             IN  IF r.status # "ok" THEN Result(r.c, "error", r.err, 0, <<>>)
                 ELSE LET more == Min(USub(count, read1), r.c.f.buf_size_)
                      IN  Result([r.c EXCEPT !.f.buf_i_ = more], "ok", "none", read1 + more,
                                 str1 \o Span(r.c.mem, 0, more, env))

RECURSIVE ReadStrLoop(_, _, _, _, _)
\* the loop of file::read(int64_t)
ReadStrLoop(c, count, read, str, env) ==
    LET available == Available(c.f)
        copy_size == Min(USub(count, read), available)
    IN  IF ~InBounds(c.mem, c.f.buf_i_, copy_size) THEN Result(c, "ub", "none", read, str)
        ELSE
        LET str1 == str \o Span(c.mem, c.f.buf_i_, copy_size, env)
            c1 == [c EXCEPT !.f.buf_i_ = @ + copy_size]
            read1 == read + copy_size
        IN  IF read1 = count THEN Result(c1, "ok", "none", read1, str1)
            ELSE LET r == Refill(c1, env)
                 IN  IF r.status # "ok" THEN Result(r.c, "error", r.err, 0, <<>>)
                     ELSE IF r.c.f.buf_size_ = 0 THEN Result(r.c, "ok", "none", read1, str1)
                     ELSE ReadStrLoop(r.c, count, read1, str1, env)

\* file::read(int64_t count)
ReadStr(c, count, env) ==
    IF ~can_read(c.f) THEN Result(c, "error", "bad_file", 0, <<>>)
    ELSE LET rem == IF count < 0 THEN Remaining(c) ELSE Result(c, "ok", "none", count, <<>>)
         IN  IF rem.status # "ok" THEN rem
             ELSE IF rem.n < 0 THEN Result(c, "error", "io", 0, <<>>)
             ELSE ReadStrLoop(c, rem.n, 0, <<>>, env)

RECURSIVE ReadBytesLoop(_, _, _, _, _)
\* the loop of file::read_bytes
ReadBytesLoop(c, count, read, vec, env) ==
    LET available == Available(c.f)
        copy_size == Min(USub(count, read), available)
    IN  IF ~InBounds(c.mem, c.f.buf_i_, copy_size) THEN Result(c, "ub", "none", read, vec)
        ELSE
        LET vec1 == vec \o Span(c.mem, c.f.buf_i_, copy_size, env)
            c1 == [c EXCEPT !.f.buf_i_ = @ + copy_size]
            read1 == read + copy_size
        IN  IF read1 = count THEN Result(c1, "ok", "none", read1, vec1)
            ELSE LET r == Refill(c1, env)
                 IN  IF r.status # "ok" THEN Result(r.c, "error", r.err, 0, <<>>)
                     ELSE IF r.c.f.buf_size_ = 0 THEN Result(r.c, "ok", "none", read1, vec1)
                     ELSE ReadBytesLoop(r.c, count, read1, vec1, env)

\* file::read_bytes(int64_t count)
ReadBytes(c, count, env) ==
    IF ~can_read(c.f) THEN Result(c, "error", "bad_file", 0, <<>>)
    ELSE LET rem == IF count < 0 THEN Remaining(c) ELSE Result(c, "ok", "none", count, <<>>)
         IN  IF rem.status # "ok" THEN rem
             ELSE IF rem.n < 0 THEN Result(c, "error", "io", 0, <<>>)
             ELSE ReadBytesLoop(c, rem.n, 0, <<>>, env)

\* a read_into_capacity that stops at the first refill instead of looping
ReadIntoCapacityOneFill(c, cap, len, read, app, env) ==
    LET available == Available(c.f)
        copy_size == Min(USub(cap, len), available)
        c1 == [c EXCEPT !.f.buf_i_ = @ + copy_size]
        app1 == app \o Span(c.mem, c.f.buf_i_, copy_size, env)
    IN  IF cap = len + copy_size THEN Result(c1, "ok", "none", copy_size, app1)
        ELSE LET r == Refill(c1, env)
             IN  IF r.status # "ok" THEN Result(r.c, "error", r.err, 0, app1)
                 ELSE LET more == Min(USub(cap, len + copy_size), r.c.f.buf_size_)
                      IN  Result([r.c EXCEPT !.f.buf_i_ = more], "ok", "none",
                                 copy_size + more,
                                 app1 \o Span(r.c.mem, 0, more, env))

RECURSIVE ReadIntoCapacityLoop(_, _, _, _, _, _)
\* the loop of file::read_into_capacity; cap is vec.capacity(), size is vec.size(),
\* app the bytes appended so far
ReadIntoCapacityLoop(c, cap, size, read, app, env) ==
    LET available == Available(c.f)
        copy_size == Min(USub(cap, size), available)
    IN  IF ~InBounds(c.mem, c.f.buf_i_, copy_size) THEN Result(c, "ub", "none", read, app)
        ELSE
        LET app1 == app \o Span(c.mem, c.f.buf_i_, copy_size, env)
            size1 == size + copy_size
            c1 == [c EXCEPT !.f.buf_i_ = @ + copy_size]
            read1 == read + copy_size
        IN  IF cap = size1 THEN Result(c1, "ok", "none", read1, app1)
            ELSE LET r == Refill(c1, env)
                 IN  IF r.status # "ok" THEN Result(r.c, "error", r.err, 0, app1)
                     ELSE IF r.c.f.buf_size_ = 0 THEN Result(r.c, "ok", "none", read1, app1)
                     ELSE ReadIntoCapacityLoop(r.c, cap, size1, read1, app1, env)

\* file::read_into_capacity(vec) for a vector of capacity cap holding size bytes
ReadIntoCapacity(c, cap, size, env) ==
    IF ~can_read(c.f) THEN Result(c, "error", "bad_file", 0, <<>>)
    ELSE ReadIntoCapacityLoop(c, cap, size, 0, <<>>, env)


\* std::string::append(const char*, n) throws std::length_error above max_size()
StrMaxSize == SizeMod \div 2 - 1

RECURSIVE ReadLineLoop(_, _, _, _)
RECURSIVE ReadLineScan(_, _, _, _)
\* a loop that leaves buf_i_ and buf_size_ as they are when the refill returns 0
ReadLineLoopKeepsCursorsAtEof(c, start, line, env) ==
    IF c.f.buf_i_ = c.f.buf_size_
    THEN LET line1 == line \o Span(c.mem, start, USub(c.f.buf_i_, start), env)
             r == RawRead(c, c.f.buf_cap_, env)
         IN  IF r.status # "ok" THEN Result(r.c, "error", r.err, 0, line1)
             ELSE LET c1 == [r.c EXCEPT !.f.buf_size_ = r.n, !.f.buf_i_ = 0]
                  IN  IF r.n = 0
                      THEN Result(r.c, "ok", "none", IF line1 = <<>> THEN 0 ELSE 1, line1)
                      ELSE ReadLineScan(c1, 0, line1, env)
    ELSE ReadLineScan(c, start, line, env)

\* the loop of file::read_line: the refill taken when buf_i_ == buf_size_
ReadLineLoop(c, start, line, env) ==
    IF c.f.buf_i_ = c.f.buf_size_
    THEN LET line1 == line \o Span(c.mem, start, USub(c.f.buf_i_, start), env)
             r == RawRead(c, c.f.buf_cap_, env)
         IN  IF r.status # "ok" THEN Result(r.c, "error", r.err, 0, line1)
             ELSE LET c1 == [r.c EXCEPT !.f.buf_size_ = r.n, !.f.buf_i_ = 0]
                  IN  IF r.n = 0
                      THEN Result(c1, "ok", "none", IF line1 = <<>> THEN 0 ELSE 1, line1)
                      ELSE ReadLineScan(c1, 0, line1, env)
    ELSE ReadLineScan(c, start, line, env)

\* a scan that never drops the CR before the LF
ReadLineScanKeepsCR(c, start, line, env) ==
    IF ~InBounds(c.mem, c.f.buf_i_, 1) THEN Result(c, "ub", "none", 0, line)
    ELSE IF MemAt(c.mem, c.f.buf_i_, env) = LF
    THEN Result([c EXCEPT !.f.buf_i_ = @ + 1], "ok", "none", 1,
                line \o Span(c.mem, start, USub(c.f.buf_i_, start), env))
    ELSE ReadLineLoop([c EXCEPT !.f.buf_i_ = @ + 1], start, line, env)

\* a scan that takes the LF into the line
ReadLineScanKeepsLF(c, start, line, env) ==
    IF ~InBounds(c.mem, c.f.buf_i_, 1) THEN Result(c, "ub", "none", 0, line)
    ELSE IF MemAt(c.mem, c.f.buf_i_, env) = LF
    THEN Result([c EXCEPT !.f.buf_i_ = @ + 1], "ok", "none", 1,
                line \o Span(c.mem, start, USub(c.f.buf_i_, start) + 1, env))
    ELSE ReadLineLoop([c EXCEPT !.f.buf_i_ = @ + 1], start, line, env)

\* a scan that also drops a CR the previous fill ended with
ReadLineScanStripsAcross(c, start, line, env) ==
    IF ~InBounds(c.mem, c.f.buf_i_, 1) THEN Result(c, "ub", "none", 0, line)
    ELSE IF MemAt(c.mem, c.f.buf_i_, env) = LF
    THEN LET end0 == USub(c.f.buf_i_, start)
             strip == IF c.f.buf_i_ > 0 /\ MemAt(c.mem, c.f.buf_i_ - 1, env) = CR
                      THEN 1 ELSE 0
             end == USub(end0, strip)
             kept == IF c.f.buf_i_ = 0 /\ line # <<>> /\ line[Len(line)] = CR
                     THEN SubSeq(line, 1, Len(line) - 1) ELSE line
         IN  IF end > StrMaxSize THEN Result(c, "throw", "length_error", 0, line)
             ELSE Result([c EXCEPT !.f.buf_i_ = @ + 1], "ok", "none", 1,
                         kept \o Span(c.mem, start, end, env))
    ELSE ReadLineLoop([c EXCEPT !.f.buf_i_ = @ + 1], start, line, env)

\* the rest of the loop body of file::read_line: the test of buffer_[buf_i_]
ReadLineScan(c, start, line, env) ==
    IF ~InBounds(c.mem, c.f.buf_i_, 1) THEN Result(c, "ub", "none", 0, line)
    ELSE IF MemAt(c.mem, c.f.buf_i_, env) = LF
    THEN LET end0 == USub(c.f.buf_i_, start)
             strip == IF c.f.buf_i_ > 0 /\ MemAt(c.mem, c.f.buf_i_ - 1, env) = CR
                      THEN 1 ELSE 0
             end == USub(end0, strip)
         IN  IF end > StrMaxSize THEN Result(c, "throw", "length_error", 0, line)
             ELSE Result([c EXCEPT !.f.buf_i_ = @ + 1], "ok", "none", 1,
                         line \o Span(c.mem, start, end, env))
    ELSE ReadLineLoop([c EXCEPT !.f.buf_i_ = @ + 1], start, line, env)

\* file::read_line(line): n is the bool returned, out the line
ReadLine(c, env) ==
    IF ~can_read(c.f) THEN Result(c, "error", "bad_file", 0, <<>>)
    ELSE ReadLineLoop(c, c.f.buf_i_, <<>>, env)

\* ------------------------------------------------------ buffered writes
\* a flush that refreshes the cached size
FlushUpdatesSize(c, env) ==
    LET res == RawWrite(c, c.f.buf_i_, env)
    IN  IF res.status # "ok" THEN Result(res.c, "error", res.err, 0, <<>>)
        ELSE Result([res.c EXCEPT !.f.buf_i_ = 0, !.f.size_ = Len(res.c.data)],
                    "ok", "none", 0, <<>>)

\* a flush that tries the raw write a second time when it fails
FlushRetries(c, env) ==
    LET res == RawWrite(c, c.f.buf_i_, env)
        res2 == IF res.status # "ok" THEN RawWrite(res.c, c.f.buf_i_, env) ELSE res
    IN  IF res2.status # "ok" THEN Result(res2.c, "error", res2.err, 0, <<>>)
        ELSE Result([res2.c EXCEPT !.f.buf_i_ = 0], "ok", "none", 0, <<>>)

\* file::flush
Flush(c, env) ==
    LET res == RawWrite(c, c.f.buf_i_, env)
    IN  IF res.status # "ok" THEN Result(res.c, "error", res.err, 0, <<>>)
        ELSE Result([res.c EXCEPT !.f.buf_i_ = 0], "ok", "none", 0, <<>>)

\* a copy to buffer_ instead of buffer_ + buf_i_
CopyInAtStart(mem, at, bytes) ==
    [k \in 1..Len(mem) |-> IF k <= Len(bytes) THEN bytes[k] ELSE mem[k]]

\* memcpy(buffer_ + buf_i_, buffer + written, copy_size) in file::write
CopyIn(mem, at, bytes) ==
    [k \in 1..Len(mem) |-> IF k > at /\ k <= at + Len(bytes) THEN bytes[k - at] ELSE mem[k]]

RECURSIVE WriteLoop(_, _, _, _)
\* a loop that flushes a full buffer only when more bytes are to be staged
WriteLoopLazyFlush(c, buffer, written, env) ==
    IF written = Len(buffer) THEN Result(c, "ok", "none", written, <<>>)
    ELSE LET cap_remaining == USub(c.f.buf_cap_, c.f.buf_i_)
             copy_size == Min(USub(Len(buffer), written), cap_remaining)
         IN  IF ~InBounds(c.mem, c.f.buf_i_, copy_size)
             THEN Result(c, "ub", "none", written, <<>>)
             ELSE
             LET c1 == [c EXCEPT !.mem = CopyIn(c.mem, c.f.buf_i_,
                                                SubSeq(buffer, written + 1, written + copy_size)),
                                 !.f.buf_i_ = @ + copy_size]
                 written1 == written + copy_size
             IN  IF c1.f.buf_i_ = c1.f.buf_cap_ /\ written1 < Len(buffer)
                 THEN LET res == Flush(c1, env)
                      IN  IF res.status # "ok" THEN Result(res.c, "error", res.err, 0, <<>>)
                          ELSE WriteLoop(res.c, buffer, written1, env)
                 ELSE WriteLoop(c1, buffer, written1, env)

\* the loop of file::write(const void*, size_t); buffer holds the count bytes given
WriteLoop(c, buffer, written, env) ==
    IF written = Len(buffer) THEN Result(c, "ok", "none", written, <<>>)
    ELSE LET cap_remaining == USub(c.f.buf_cap_, c.f.buf_i_)
             copy_size == Min(USub(Len(buffer), written), cap_remaining)
         IN  IF ~InBounds(c.mem, c.f.buf_i_, copy_size)
             THEN Result(c, "ub", "none", written, <<>>)
             ELSE
             LET c1 == [c EXCEPT !.mem = CopyIn(c.mem, c.f.buf_i_,
                                                SubSeq(buffer, written + 1, written + copy_size)),
                                 !.f.buf_i_ = @ + copy_size]
                 written1 == written + copy_size
             IN  IF c1.f.buf_i_ = c1.f.buf_cap_
                 THEN LET res == Flush(c1, env)
                      IN  IF res.status # "ok" THEN Result(res.c, "error", res.err, 0, <<>>)
                          ELSE WriteLoop(res.c, buffer, written1, env)
                 ELSE WriteLoop(c1, buffer, written1, env)

\* file::write(const void* buffer, size_t count) and file::write(std::string_view)
Write(c, buffer, env) ==
    IF ~can_write(c.f) THEN Result(c, "error", "bad_file", 0, <<>>)
    ELSE WriteLoop(c, buffer, 0, env)

\* a close that leaves fd_ as it is
RawCloseKeepsFd(c) ==
    [c EXCEPT !.closes = IF c.f.fd_ >= 0 THEN @ \cup {c.f.fd_} ELSE @,
              !.f.size_ = 0, !.f.block_size_ = 0]

\* a close that calls ::close whatever fd_ is
RawCloseUnguarded(c) ==
    [c EXCEPT !.closes = @ \cup {c.f.fd_},
              !.f.fd_ = -1, !.f.size_ = 0, !.f.block_size_ = 0]

\* raw::close
RawClose(c) ==
    [c EXCEPT !.closes = IF c.f.fd_ >= 0 THEN @ \cup {c.f.fd_} ELSE @,
              !.f.fd_ = -1, !.f.size_ = 0, !.f.block_size_ = 0]

\* a close that returns the error of its flush and leaves the descriptor open
CloseStopsOnError(c, env) ==
    LET res == Flush(c, env)
    IN  IF can_write(c.f) /\ res.status # "ok" THEN Result(res.c, "error", res.err, 0, <<>>)
        ELSE Result(RawClose(IF can_write(c.f) THEN res.c ELSE c), "ok", "none", 0, <<>>)

\* file::close
Close(c, env) ==
    LET c1 == IF can_write(c.f) THEN Flush(c, env).c ELSE c
    IN  Result(RawClose(c1), "ok", "none", 0, <<>>)

\* a seek that keeps the bytes buffered before it
SeekKeepsBuffer(c, offset, mode) ==
    LET res == RawSeek(c, offset, mode)
    IN  IF res.status # "ok" THEN Result(res.c, "error", res.err, 0, <<>>)
        ELSE Result(res.c, "ok", "none", res.n, <<>>)

\* a seek that resets buf_size_ and leaves buf_i_
SeekKeepsCursor(c, offset, mode) ==
    LET res == RawSeek(c, offset, mode)
    IN  IF res.status # "ok" THEN Result(res.c, "error", res.err, 0, <<>>)
        ELSE Result([res.c EXCEPT !.f.buf_size_ = 0], "ok", "none", res.n, <<>>)

\* file::seek
Seek(c, offset, mode) ==
    LET res == RawSeek(c, offset, mode)
    IN  IF res.status # "ok" THEN Result(res.c, "error", res.err, 0, <<>>)
        ELSE Result([res.c EXCEPT !.f.buf_i_ = 0, !.f.buf_size_ = 0], "ok", "none", res.n, <<>>)

\* a tell that goes through the buffered seek
TellDropsBuffer(c) == Seek(c, 0, "cur")

\* a tell that rewinds the descriptor
TellFromStart(c) == RawSeek(c, 0, "set")

\* file::tell
Tell(c) == RawTell(c)

\* a sync that flushes the staged bytes first
SyncFlushes(c, env) ==
    LET res == Flush(c, env)
    IN  IF res.status # "ok" THEN res ELSE RawSync(res.c, env)

\* file::sync
Sync(c, env) == RawSync(c, env)

\* file::size
size(f) == f.size_
\* file::block_size
block_size(f) == f.block_size_


\* -------------------------------------------------- open, move, destroy
DefaultBufCap == 4096
Lowest(S) == CHOOSE x \in S : \A y \in S : x <= y
WResult(w, status, err) == [w |-> w, status |-> status, err |-> err]

\* free(buffer_)
Free(w, b) ==
    IF b = 0 THEN w
    ELSE IF w.heap[b].alloc THEN [w EXCEPT !.heap[b] = NoBuf]
    ELSE [w EXCEPT !.g.badfree = TRUE]

\* file::open over raw::open: env.openErr is the errno of a failing ::open,
\* env.statFail a failing ::fstat, env.noMem a failing malloc, env.blksize st_blksize
Open(w, i, path, mode, env) ==
    LET free == {x \in Fds : ~w.fdt[x].open}
        errno == IF env.openErr # "none" THEN env.openErr
                 ELSE IF mode = "read" /\ ~w.disk[path].exists THEN "ENOENT"
                 ELSE IF free = {} THEN "EMFILE" ELSE "none"
    IN  IF errno # "none" THEN WResult(w, "error", to_error(errno))
        ELSE
        LET fd == Lowest(free)
            data == IF mode = "write" \/ ~w.disk[path].exists THEN <<>> ELSE w.disk[path].data
            w1 == [w EXCEPT !.disk[path] = [exists |-> TRUE, data |-> data],
                            !.fdt[fd] = [open |-> TRUE, path |-> path, off |-> 0,
                                         app |-> (mode = "append")]]
        IN  IF env.statFail THEN WResult(w1, "error", to_error(env.errno))
            ELSE
            LET block_s == env.blksize
                buf_cap == IF block_s > 0 THEN block_s ELSE DefaultBufCap
                freeb == {b \in BufIds : ~w.heap[b].alloc}
            IN  IF env.noMem \/ freeb = {}
                THEN WResult([w1 EXCEPT !.fdt[fd] = NoFd], "error", "no_mem")
                ELSE
                LET buffer == Lowest(freeb)
                IN  WResult([w1 EXCEPT
                        !.heap[buffer] = [alloc |-> TRUE, mem |-> [k \in 1..buf_cap |-> Uninit]],
                        !.h[i] = [live |-> TRUE, fd_ |-> fd, mode_ |-> mode,
                                  size_ |-> Len(data), block_size_ |-> block_s,
                                  buffer_ |-> buffer, buf_cap_ |-> buf_cap,
                                  buf_size_ |-> 0, buf_i_ |-> 0]],
                            "ok", "none")

\* raw::raw(raw&&): the moved-to raw
RawMoved(other) ==
    [fd_ |-> other.fd_, mode_ |-> other.mode_, size_ |-> other.size_,
     block_size_ |-> other.block_size_]
\* a move that leaves the descriptor in other
RawMovedFromKeepsFd(other) == other

\* raw::raw(raw&&) and raw::operator=(raw&&): what is left in other
RawMovedFrom(other) == [other EXCEPT !.fd_ = -1]

\* a move constructor that leaves buf_i_ at its default member initializer too
FileMovedDropsCursor(other) ==
    RawMoved(other) @@
    [live |-> TRUE, buffer_ |-> other.buffer_, buf_cap_ |-> other.buf_cap_,
     buf_size_ |-> 0, buf_i_ |-> 0]

\* file::file(file&&): the new object; buf_size_ is not in the initializer list
\* and keeps its default member initializer
FileMoved(other) ==
    RawMoved(other) @@
    [live |-> TRUE, buffer_ |-> other.buffer_, buf_cap_ |-> other.buf_cap_,
     buf_size_ |-> 0, buf_i_ |-> other.buf_i_]
\* a move that leaves buffer_ in other
FileMovedFromKeepsBuffer(other) ==
    [RawMovedFrom(other) EXCEPT !.buf_cap_ = 0, !.buf_size_ = 0, !.buf_i_ = 0]

\* file::file(file&&) and file::operator=(file&&): what is left in other
FileMovedFrom(other) ==
    [RawMovedFrom(other) EXCEPT !.buffer_ = 0, !.buf_cap_ = 0, !.buf_size_ = 0, !.buf_i_ = 0]

\* file::file(file&& other) building the object of slot dst from slot src
MoveConstruct(w, dst, src) ==
    [w EXCEPT !.h[dst] = FileMoved(w.h[src]), !.h[src] = FileMovedFrom(w.h[src])]

\* file::operator=(file&&): the assigned-to object after its own close and free
FileAssigned(other) ==
    RawMoved(other) @@
    [live |-> TRUE, buffer_ |-> other.buffer_, buf_cap_ |-> other.buf_cap_,
     buf_size_ |-> other.buf_size_, buf_i_ |-> other.buf_i_]

\* an assignment that adopts the source without closing what dst held
MoveAssignNoClose(w, dst, src, env) ==
    IF dst = src THEN w
    ELSE LET w2 == Free(w, w.h[dst].buffer_)
         IN  [w2 EXCEPT !.h[dst] = FileAssigned(w2.h[src]),
                        !.h[src] = FileMovedFrom(w2.h[src])]

\* file::operator=(file&& other) on slot dst from slot src
MoveAssign(w, dst, src, env) ==
    IF dst = src THEN w
    ELSE LET w1 == Put(w, dst, Close(Ctx(w, dst), env).c)
             w2 == Free(w1, w1.h[dst].buffer_)
         IN  [w2 EXCEPT !.h[dst] = FileAssigned(w2.h[src]),
                        !.h[src] = FileMovedFrom(w2.h[src])]

\* file::~file then raw::~raw on slot i
Destroy(w, i, env) ==
    LET w1 == Put(w, i, Close(Ctx(w, i), env).c)
        w2 == Free(w1, w1.h[i].buffer_)
    IN  [w2 EXCEPT !.h[i] = NoHandle]


\* ------------------------------------------------------------- history
\* g.lpos[i]: how many bytes of the file the calls on the stream of slot i have
\* consumed so far (-1 when a failed call left it unknown); g.hist[i]: "fresh"
\* after open, "lines" while only read_line was called, else "mixed";
\* g.got[i]: the lines of the read_line calls that returned true, while only
\* read_line was called; g.straddle[i]: a refill began on the LF of a CR LF
\* pair; g.wrote[i]: the data of the writes that returned success, in call
\* order; g.handed[i]: the bytes the raw writes of the stream were given;
\* g.kept[i]: the written data less the bytes that were staged when a seek
\* succeeded; g.shut[i]: how many close() calls the object has seen (2 stands
\* for two or more); g.eof[i]: a reading call has returned fewer bytes than it
\* was asked for (a count >= 0), or read_line has returned false, and no seek
\* was called since; g.lines: the logical lines Init encoded into the files, if it did;
\* g.moved: the moved-from objects; g.badfree: a buffer was freed twice;
\* g.ub: the run left defined behaviour.
NoHistory ==
    [lpos |-> [i \in HandleIds |-> 0], hist |-> [i \in HandleIds |-> "fresh"],
     got |-> [i \in HandleIds |-> <<>>], straddle |-> [i \in HandleIds |-> FALSE],
     wrote |-> [i \in HandleIds |-> <<>>], handed |-> [i \in HandleIds |-> <<>>],
     kept |-> [i \in HandleIds |-> <<>>], shut |-> [i \in HandleIds |-> 0],
     eof |-> [i \in HandleIds |-> FALSE],
     lines |-> <<>>, moved |-> {}, badfree |-> FALSE, ub |-> FALSE]

\* whether one of the refills that began at the offsets fills split a CR LF pair
Straddles(data, fills) ==
    \E o \in fills : o >= 1 /\ o < Len(data) /\ data[o] = CR /\ data[o + 1] = LF

\* the bytes of the file behind the object of slot i
FileData(w, i) == Ctx(w, i).data

\* where the line that starts at position p ends: after its LF, or at the end of the file
RECURSIVE NextLinePos(_, _)
NextLinePos(data, p) ==
    IF p >= Len(data) THEN p
    ELSE IF data[p + 1] = LF THEN p + 1
    ELSE NextLinePos(data, p + 1)

ReadOps == {"read", "read_bytes", "read_into_capacity", "read_buf", "read_line"}

\* the history after a call op(arg) on slot i that returned r
Consumed(w, i, op, arg, r) ==
    LET p == w.g.lpos[i]
        c == Ctx(w, i)
        same == r.c.f = c.f /\ r.c.off = c.off
        q == IF p < 0 THEN -1
             ELSE IF r.status # "ok" THEN (IF same THEN p ELSE -1)
             ELSE CASE op \in {"read", "read_bytes", "read_into_capacity"} -> p + Len(r.out)
                    [] op = "read_buf" -> p + r.n
                    [] op = "read_line" -> NextLinePos(FileData(w, i), p)
                    [] op = "seek" -> r.n
                    [] OTHER -> p
        stream == op \in {"read", "read_bytes", "read_into_capacity", "read_buf",
                          "read_line", "seek", "write", "flush"}
    IN  [w.g EXCEPT
            !.lpos[i] = IF op = "seek" /\ r.status = "ok" THEN r.n
                        ELSE IF stream /\ can_read(w.h[i]) THEN q ELSE p,
            !.hist[i] = IF ~stream \/ ~can_read(w.h[i]) THEN @
                        ELSE IF op = "read_line" /\ @ \in {"fresh", "lines"} THEN "lines"
                        ELSE "mixed",
            !.got[i] = IF ~stream \/ ~can_read(w.h[i]) THEN @
                       ELSE IF op # "read_line" \/ w.g.hist[i] = "mixed" THEN <<>>
                       ELSE IF r.status = "ok" /\ r.n = 1 THEN Append(@, r.out) ELSE @,
            !.straddle[i] = @ \/ Straddles(c.data, r.c.fills),
            !.wrote[i] = IF op = "write" /\ r.status = "ok" THEN @ \o arg ELSE @,
            !.handed[i] = @ \o r.c.handed,
            !.shut[i] = IF op = "close" THEN Min(@ + 1, 2) ELSE @,
            !.eof[i] = IF op = "seek" THEN FALSE
                       ELSE IF op \notin ReadOps \/ ~can_read(w.h[i]) \/ r.status # "ok"
                       THEN @
                       ELSE IF op = "read_line" THEN @ \/ r.n = 0
                       ELSE @ \/ (arg >= 0 /\ r.n < arg),
            !.kept[i] = IF op = "write" /\ r.status = "ok" THEN @ \o arg
                        ELSE IF op = "seek" /\ r.status = "ok" THEN w.g.handed[i]
                        ELSE @,
            !.ub = @ \/ r.status \in {"ub", "throw"}]

\* ------------------------------------------------------------- actions
\* One call on the object of slot i that returned r: the world becomes that of
\* r.c and ret records the call: its arguments arg and arg2, the history's
\* position from before a reading call, and in seeked the offset of the
\* seek(offset, set) that succeeded just before a reading call (else -1).
Called(i, op, arg, arg2, r) ==
    LET w1 == Put(World, i, r.c)
    IN  /\ disk' = w1.disk
        /\ fdt' = w1.fdt
        /\ heap' = w1.heap
        /\ h' = w1.h
        /\ g' = Consumed(World, i, op, arg, r)
        /\ ret' = [op |-> op, hid |-> i, status |-> r.status, err |-> r.err, n |-> r.n,
                   out |-> r.out,
                   from |-> IF op \in ReadOps THEN g.lpos[i] ELSE 0,
                   seeked |-> IF op \in ReadOps /\ ret.op = "seek" /\ ret.hid = i
                                 /\ ret.status = "ok" /\ ret.arg2 = "set"
                              THEN ret.arg ELSE -1,
                   arg |-> arg, arg2 |-> arg2]

\* A call made by the program itself, not through the iterator
Returns(i, op, arg, arg2, r) ==
    /\ Called(i, op, arg, arg2, r)
    /\ iter' = iter

\* What the OS may do during one call on slot i
Chunks(i) == {1, IF h[i].buf_cap_ > 0 THEN h[i].buf_cap_ ELSE 1}
OsEnv(chunk) == [chunk |-> chunk, failAt |-> 0, errno |-> "none", junk |-> "a"]

DoReadBuf(i, count, env) ==
    /\ h[i].live /\ ~g.ub
    /\ Returns(i, "read_buf", count, "", ReadBuf(Ctx(World, i), count, env))

DoRead(i, count, env) ==
    /\ h[i].live /\ ~g.ub
    /\ Returns(i, "read", count, "", ReadStr(Ctx(World, i), count, env))

DoReadBytes(i, count, env) ==
    /\ h[i].live /\ ~g.ub
    /\ Returns(i, "read_bytes", count, "", ReadBytes(Ctx(World, i), count, env))

\* arg is the spare capacity vec.capacity() - vec.size() on entry
DoReadIntoCapacity(i, cap, len, env) ==
    /\ h[i].live /\ ~g.ub
    /\ Returns(i, "read_into_capacity", cap - len, "",
               ReadIntoCapacity(Ctx(World, i), cap, len, env))

DoReadLine(i, env) ==
    /\ h[i].live /\ ~g.ub
    /\ Returns(i, "read_line", 0, "", ReadLine(Ctx(World, i), env))

DoSeek(i, offset, mode) ==
    /\ h[i].live /\ ~g.ub
    /\ LET r == Seek(Ctx(World, i), offset, mode)
       IN  /\ r.status = "ok" => r.n <= MaxFileLen + 1
           /\ Returns(i, "seek", offset, mode, r)

DoTell(i) ==
    /\ h[i].live /\ ~g.ub
    /\ Returns(i, "tell", 0, "", Tell(Ctx(World, i)))

DoWrite(i, buffer, env) ==
    /\ h[i].live /\ ~g.ub
    /\ can_write(h[i]) => Len(g.wrote[i]) + Len(buffer) <= MaxWriteLen
    /\ Returns(i, "write", buffer, "", Write(Ctx(World, i), buffer, env))

DoFlush(i, env) ==
    /\ h[i].live /\ ~g.ub
    /\ Returns(i, "flush", 0, "", Flush(Ctx(World, i), env))

DoSync(i, env) ==
    /\ h[i].live /\ ~g.ub
    /\ Returns(i, "sync", 0, "", Sync(Ctx(World, i), env))

DoClose(i, env) ==
    /\ h[i].live /\ ~g.ub
    /\ Returns(i, "close", 0, "", Close(Ctx(World, i), env))

\* the object of slot i goes out of scope
DoDestroy(i, env) ==
    /\ h[i].live /\ ~g.ub
    /\ LET r == Close(Ctx(World, i), env)
           w1 == Destroy(World, i, env)
       IN  /\ disk' = w1.disk
           /\ fdt' = w1.fdt
           /\ heap' = w1.heap
           /\ h' = w1.h
           /\ g' = [Consumed(World, i, "destroy", 0, r) EXCEPT
                        !.badfree = w1.g.badfree, !.moved = @ \ {i}]
           /\ ret' = [NoRet EXCEPT !.op = "destroy", !.hid = i, !.status = "ok"]
           /\ iter' = iter

\* lines_iterator::next(): read_line on f_ into the string taken out of line_
ItNext(it, env) ==
    /\ h[it.hid].live /\ ~g.ub
    /\ LET res == ReadLine(Ctx(World, it.hid), env)
       IN  /\ Called(it.hid, "read_line", 0, "next", res)
           /\ iter' = IF res.status = "ok"
                       THEN [it EXCEPT !.eof_ = (res.n = 0), !.ok = TRUE, !.line = res.out]
                       ELSE [it EXCEPT !.eof_ = TRUE, !.ok = FALSE, !.line = <<>>,
                                       !.err = res.err]

\* f.lines().begin() on slot i: lines_iterator(f_), whose constructor calls next()
DoBegin(i, env) ==
    /\ ~iter.live
    /\ ItNext([NoIter EXCEPT !.live = TRUE, !.hid = i], env)

\* ++it in a loop that runs while it != end
DoIncrement(env) ==
    /\ iter.live /\ ~iter.eof_
    /\ ItNext(iter, env)

\* The history of the stream of slot src now belongs to slot dst
Transfer(hist, dst, src) ==
    IF dst = src THEN hist
    ELSE [hist EXCEPT
            !.lpos = [@ EXCEPT ![dst] = hist.lpos[src], ![src] = 0],
            !.hist = [@ EXCEPT ![dst] = hist.hist[src], ![src] = "fresh"],
            !.got = [@ EXCEPT ![dst] = hist.got[src], ![src] = <<>>],
            !.straddle = [@ EXCEPT ![dst] = hist.straddle[src], ![src] = FALSE],
            !.wrote = [@ EXCEPT ![dst] = hist.wrote[src], ![src] = <<>>],
            !.handed = [@ EXCEPT ![dst] = hist.handed[src], ![src] = <<>>],
            !.kept = [@ EXCEPT ![dst] = hist.kept[src], ![src] = <<>>],
            !.eof = [@ EXCEPT ![dst] = hist.eof[src], ![src] = FALSE],
            !.shut = [@ EXCEPT ![dst] = 0],
            !.moved = (@ \cup {src}) \ {dst}]

\* The world becomes w1 after op built or assigned slot dst from slot src; ret
\* keeps the cursors the source had before in n (buf_size_) and from (buf_i_)
Moves(op, dst, src, w1) ==
    /\ disk' = w1.disk
    /\ fdt' = w1.fdt
    /\ heap' = w1.heap
    /\ h' = w1.h
    /\ g' = Transfer(w1.g, dst, src)
    /\ ret' = [NoRet EXCEPT !.op = op, !.hid = dst, !.status = "ok", !.arg = src,
                            !.n = h[src].buf_size_, !.from = h[src].buf_i_]
    /\ iter' = iter

\* file dst(std::move(src))
DoMoveConstruct(dst, src) ==
    /\ h[src].live /\ ~h[dst].live /\ ~g.ub
    /\ Moves("move_construct", dst, src, MoveConstruct(World, dst, src))

\* dst = std::move(src)
DoMoveAssign(dst, src, env) ==
    /\ h[src].live /\ h[dst].live /\ ~g.ub
    /\ Moves("move_assign", dst, src, MoveAssign(World, dst, src, env))

\* file::open(path, mode) into the empty slot i
DoOpen(i, path, mode, env) ==
    /\ ~h[i].live /\ ~g.ub
    /\ LET r == Open(World, i, path, mode, env)
       IN  /\ disk' = r.w.disk
           /\ fdt' = r.w.fdt
           /\ heap' = r.w.heap
           /\ h' = r.w.h
           /\ g' = [r.w.g EXCEPT !.lpos[i] = 0, !.hist[i] = "fresh", !.got[i] = <<>>,
                                 !.straddle[i] = FALSE, !.wrote[i] = <<>>,
                                 !.handed[i] = <<>>, !.kept[i] = <<>>, !.shut[i] = 0,
                                 !.eof[i] = FALSE,
                                 !.moved = @ \ {i}]
           /\ ret' = [NoRet EXCEPT !.op = "open", !.hid = i, !.status = r.status,
                                   !.err = r.err, !.arg = path, !.arg2 = mode]
           /\ iter' = iter


\* -------------------------------------------- reading one file (SpecRead)
\* The world before any open: the file "p" holds data, "q" does not exist
BlankWorld(data) ==
    [disk |-> [p \in Paths |-> IF p = "p" THEN [exists |-> TRUE, data |-> data]
                               ELSE [exists |-> FALSE, data |-> <<>>]],
     fdt |-> [x \in Fds |-> NoFd],
     heap |-> [b \in BufIds |-> NoBuf],
     h |-> [i \in HandleIds |-> NoHandle],
     g |-> NoHistory]

OpenEnv(blksize) ==
    [openErr |-> "none", statFail |-> FALSE, noMem |-> FALSE, blksize |-> blksize,
     errno |-> "none"]

IsWorld(w) ==
    /\ disk = w.disk
    /\ fdt = w.fdt
    /\ heap = w.heap
    /\ h = w.h
    /\ g = w.g

\* auto f = file::open("p") on a file of at most MaxFileLen bytes drawn from S
InitOpened(S) ==
    /\ \E data \in SeqsUpTo(S, MaxFileLen), blksize \in BlockSizes :
          IsWorld(Open(BlankWorld(data), 1, "p", "read", OpenEnv(blksize)).w)
    /\ ret = NoRet
    /\ iter = NoIter

\* Mixed calls need bytes that tell positions and line ends apart; CR only
\* matters to read_line, which SpecLines runs over all of DataBytes.
StreamBytes == {"a", LF}
InitRead == InitOpened(StreamBytes)

\* the seeks tried: any absolute offset up to one past the longest file, and
\* small relative ones
Seeks ==
    ([mode : {"set"}, offset : 0..(MaxFileLen + 1)]) \cup
    ([mode : {"cur"}, offset : {-1, 1}]) \cup
    ([mode : {"end"}, offset : {-1, 0}])

ReadStep == \E count \in -1..MaxCount, chunk \in Chunks(1) : DoRead(1, count, OsEnv(chunk))
ReadBytesStep ==
    \E count \in -1..MaxCount, chunk \in Chunks(1) : DoReadBytes(1, count, OsEnv(chunk))
ReadIntoCapacityStep ==
    \E cap \in 0..MaxVecCap, chunk \in Chunks(1) :
        \E len \in {0, cap} : DoReadIntoCapacity(1, cap, len, OsEnv(chunk))
ReadLineStep == \E chunk \in Chunks(1) : DoReadLine(1, OsEnv(chunk))
SeekStep == \E s \in Seeks : DoSeek(1, s.offset, s.mode)
TellStep == DoTell(1)

NextRead ==
    \/ ReadStep
    \/ ReadBytesStep
    \/ ReadIntoCapacityStep
    \/ ReadLineStep
    \/ SeekStep
    \/ TellStep

SpecRead == InitRead /\ [][NextRead]_vars

\* ------------------------------- read(void*, size_t) alone (SpecReadBuf)
ReadBufStep ==
    \E count \in 0..(MaxCount + 1), chunk \in Chunks(1) : DoReadBuf(1, count, OsEnv(chunk))

NextReadBuf == ReadBufStep

SpecReadBuf == InitOpened(DataBytes) /\ [][NextReadBuf]_vars


\* ------------------------------------- what SpecRead and SpecReadBuf are checked for
\* bytes [a, b) of data
Slice(data, a, b) == SubSeq(data, a + 1, b)
\* the bytes of the file read through slot 1
Data1 == FileData(World, 1)

\* C1: on a read-mode file every successful read(count), read_bytes(count) and
\* read_into_capacity returns the bytes of the file that start where the bytes
\* consumed so far end (ret.from), none skipped and none repeated, wherever the
\* refills fall.
C1_ConsecutiveSlices ==
    (ret.op \in {"read", "read_bytes", "read_into_capacity"} /\ ret.status = "ok"
        /\ ret.from >= 0)
    => ret.out = Slice(Data1, ret.from, ret.from + Len(ret.out))

\* a read_bytes that starts inside one buffer fill and ends in the next
C1_Witness ==
    /\ ret.op = "read_bytes" /\ ret.status = "ok"
    /\ h[1].buf_cap_ = 2 /\ ret.from = 1 /\ Len(ret.out) = 2 /\ h[1].buf_i_ = 1

\* C2: repeated read(out, count) with count >= 1 on a freshly opened file
\* returns 0 only once the lengths returned sum to the file's size, and after
\* each call the first r bytes of out are the next r bytes of the file.
C2_ReadBufDelivers ==
    (ret.op = "read_buf" /\ ret.status = "ok" /\ ret.arg >= 1)
    => /\ ret.n = 0 => g.lpos[1] = Len(Data1)
       /\ SubSeq(ret.out, 1, ret.n) = Slice(Data1, ret.from, ret.from + ret.n)


\* a, or 0 when a is negative
Max0(a) == IF a < 0 THEN 0 ELSE a

\* C4: seek(O, set) with 0 <= O <= N returns O, and the read(K), K >= 0, that
\* follows it returns the file bytes [O, min(O + K, N)), whatever was read before.
C4_SeekThenRead ==
    /\ (ret.op = "seek" /\ ret.arg2 = "set" /\ ret.arg \in 0..Len(Data1))
       => (ret.status = "ok" /\ ret.n = ret.arg)
    /\ (ret.op = "read" /\ ret.seeked \in 0..Len(Data1) /\ ret.arg >= 0)
       => /\ ret.status = "ok"
          /\ ret.out = Slice(Data1, ret.seeked, Min(ret.seeked + ret.arg, Len(Data1)))

\* a read(2) right after seek(1, set) that crosses a refill of a 2-byte buffer fed
\* one byte at a time
C4_Witness ==
    /\ ret.op = "read" /\ ret.status = "ok" /\ ret.seeked = 1 /\ ret.arg = 2
    /\ Len(ret.out) = 2 /\ g.hist[1] = "mixed" /\ h[1].buf_size_ = 1

\* C9: read_into_capacity appends exactly min(spare capacity, bytes left in the
\* file) bytes, so never more than the spare capacity (ret.arg), and returns
\* that number; with no spare capacity it returns 0 and the object, its buffer
\* and the file offset stay as they were.
C9_ReadIntoCapacity ==
    [][(ret'.op = "read_into_capacity" /\ ret'.status = "ok" /\ g.lpos[1] >= 0)
       => /\ ret'.n = Len(ret'.out)
          /\ ret'.n <= ret'.arg
          /\ ret'.n = Min(ret'.arg, Max0(Len(Data1) - g.lpos[1]))
          /\ ret'.out = Slice(Data1, g.lpos[1], g.lpos[1] + ret'.n)
          /\ ret'.arg = 0 => (ret'.n = 0 /\ UNCHANGED <<h, fdt, heap, disk>>)]_vars

\* a call on a full vector after one byte was consumed, with two bytes left in the file
C9_Witness ==
    /\ ret.op = "read_into_capacity" /\ ret.status = "ok"
    /\ ret.arg = 0 /\ ret.n = 0 /\ ret.from = 1 /\ Len(Data1) = 3

\* C10: after successful reads, line reads and in-file seeks, read() and
\* read_bytes() with a negative count return the bytes from the consumed
\* position to the end of the file, size() - tell() + (buf_size - buf_i) of them.
C10_ReadAll ==
    [][(ret'.op \in {"read", "read_bytes"} /\ ret'.arg < 0 /\ g.lpos[1] \in 0..Len(Data1))
       => /\ ret'.status = "ok"
          /\ ret'.out = Slice(Data1, g.lpos[1], Len(Data1))
          /\ Len(ret'.out) = size(h[1]) - Tell(Ctx(World, 1)).n
                             + (h[1].buf_size_ - h[1].buf_i_)]_vars

\* read() with bytes still unread in the buffer and more behind them in the file
C10_Witness ==
    /\ ret.op = "read" /\ ret.arg < 0 /\ ret.status = "ok"
    /\ ret.from = 1 /\ Len(ret.out) = 2 /\ g.hist[1] = "mixed"

\* C11: read(count) and read_bytes(count) with count >= 0 return exactly
\* min(count, bytes left after the consumed position) bytes, however few bytes
\* each raw read delivers; the result is shorter than count only when the last
\* refill returned 0 bytes.
C11_ExactCount ==
    (ret.op \in {"read", "read_bytes"} /\ ret.arg >= 0 /\ ret.from >= 0)
    => /\ ret.status = "ok"
       /\ Len(ret.out) = Min(ret.arg, Max0(Len(Data1) - ret.from))
       /\ Len(ret.out) < ret.arg => (h[1].buf_size_ = 0 /\ fdt[h[1].fd_].off >= Len(Data1))

\* read_bytes(2) served by raw reads of one byte each, with a byte left in the file
C11_Witness ==
    /\ ret.op = "read_bytes" /\ ret.status = "ok" /\ ret.arg = 2 /\ Len(ret.out) = 2
    /\ ret.from = 0 /\ h[1].buf_cap_ = 2 /\ h[1].buf_size_ = 1 /\ Len(Data1) = 3

\* C26: when size() - tell() + (buf_size - buf_i) is negative, read(-1) and
\* read_bytes(-1) return the io error with no bytes and leave buf_i and
\* buf_size as they were.
C26_NegativeRemainder ==
    [][(/\ ret'.op \in {"read", "read_bytes"} /\ ret'.arg < 0 /\ can_read(h[1])
        /\ size(h[1]) - fdt[h[1].fd_].off + (h[1].buf_size_ - h[1].buf_i_) < 0)
       => /\ ret'.status = "error" /\ ret'.err = "io" /\ ret'.out = <<>>
          /\ h'[1].buf_i_ = h[1].buf_i_ /\ h'[1].buf_size_ = h[1].buf_size_]_vars

\* read_bytes(-1) after a seek to one byte past the end of a 2-byte file
C26_Witness ==
    /\ ret.op = "read_bytes" /\ ret.arg = -1 /\ ret.err = "io" /\ ret.seeked = 3
    /\ size(h[1]) = 2 /\ fdt[h[1].fd_].off = 3

\* C34: tell() leaves buf_i, buf_size, the buffer, the descriptor offset and
\* the file as they were, and any read that follows returns what it would have
\* returned without the tell().
C34_TellChangesNothing ==
    [][ret'.op = "tell"
       => /\ UNCHANGED <<disk, fdt, heap, h>>
          /\ \A count \in -1..MaxCount, chunk \in Chunks(1) :
                LET before == ReadStr(Ctx(World, 1), count, OsEnv(chunk))
                    after == ReadStr(Ctx(NextWorld, 1), count, OsEnv(chunk))
                IN  after.status = before.status /\ after.out = before.out]_vars

\* tell() with one of two buffered bytes consumed
C34_Witness ==
    /\ ret.op = "tell" /\ ret.status = "ok" /\ ret.n = 2
    /\ h[1].buf_i_ = 1 /\ h[1].buf_size_ = 2 /\ g.lpos[1] = 1

\* C15: in read mode, after k bytes were consumed, seek(d, cur) with k + d >= 0
\* succeeds and returns k + d.
C15_SeekCurIsRelative ==
    [][(ret'.op = "seek" /\ ret'.arg2 = "cur" /\ g.lpos[1] >= 0
          /\ g.lpos[1] + ret'.arg >= 0)
       => (ret'.status = "ok" /\ ret'.n = g.lpos[1] + ret'.arg)]_vars

\* C16: in read mode tell() is the consumed position plus the bytes still
\* unread in the buffer, which are at least 0 and at most buf_cap; right after a
\* successful seek(O, set) it is O.
C16_TellIsAhead ==
    (can_read(h[1]) /\ g.lpos[1] >= 0)
    => LET unread == h[1].buf_size_ - h[1].buf_i_
           t == Tell(Ctx(World, 1))
       IN  /\ unread >= 0 /\ unread <= h[1].buf_cap_
           /\ t.status = "ok" /\ t.n = g.lpos[1] + unread
           /\ ret.op = "tell" => (ret.status = "ok" /\ ret.n = g.lpos[1] + unread)
           /\ (ret.op = "seek" /\ ret.arg2 = "set" /\ ret.status = "ok") => t.n = ret.arg

\* tell() two bytes ahead of the one byte consumed
C16_Witness ==
    /\ ret.op = "tell" /\ ret.status = "ok" /\ ret.n = 3
    /\ g.lpos[1] = 1 /\ h[1].buf_size_ = 3 /\ h[1].buf_i_ = 1

\* a reading call at end-of-file: r delivers nothing and leaves the object c
\* and the offset of its descriptor as they were
DeliversNothing(c, r) ==
    /\ r.status = "ok" /\ r.n = 0 /\ r.out = <<>>
    /\ r.c.f = c.f /\ r.c.off = c.off

\* the calls that take a count, made with count on c
CountedReads(c, count, env) ==
    {ReadStr(c, count, env), ReadBytes(c, count, env)}

\* the reading calls that compute no remainder, made on c
PlainReads(c, env) ==
    UNION {CountedReads(c, count, env) : count \in 0..MaxCount}
    \cup {[ReadBuf(c, count, env) EXCEPT !.out = <<>>] : count \in 0..MaxCount}
    \cup {ReadIntoCapacity(c, cap, 0, env) : cap \in 0..MaxVecCap}
    \cup {ReadLine(c, env)}

\* C38 as stated: once read_line has returned false or a read has returned
\* fewer bytes than asked for, and until a seek, buf_i = buf_size = 0 and every
\* read, with any count, returns 0 bytes and read_line returns false with an
\* empty line.
C38_EofIsStable ==
    (g.eof[1] /\ can_read(h[1]))
    => /\ h[1].buf_i_ = 0 /\ h[1].buf_size_ = 0
       /\ \A chunk \in Chunks(1) :
             LET c == Ctx(World, 1)
                 env == OsEnv(chunk)
             IN  \A r \in PlainReads(c, env) \cup CountedReads(c, -1, env) :
                    DeliversNothing(c, r)

\* C38, amended: the same, except that read(-1) and read_bytes(-1) return the
\* io error, delivering nothing and changing nothing, when the end-of-file was
\* found past the end of the file (the offset of the descriptor exceeds size()).
C38_EofIsStableButPastEnd ==
    (g.eof[1] /\ can_read(h[1]))
    => /\ h[1].buf_i_ = 0 /\ h[1].buf_size_ = 0
       /\ \A chunk \in Chunks(1) :
             LET c == Ctx(World, 1)
                 env == OsEnv(chunk)
             IN  /\ c.off >= Len(c.data) /\ c.f.size_ = Len(c.data)
                 /\ \A r \in PlainReads(c, env) : DeliversNothing(c, r)
                 /\ \A r \in CountedReads(c, -1, env) :
                        IF c.off > c.f.size_
                        THEN r = Result(c, "error", "io", 0, <<>>)
                        ELSE DeliversNothing(c, r)

\* read(-1) returned no byte after an earlier reading call had found the end
\* of a file of three bytes (a read(-1) never sets g.eof itself)
C38_Witness ==
    /\ g.eof[1] /\ ret.op = "read" /\ ret.arg = -1 /\ ret.status = "ok" /\ ret.n = 0
    /\ ret.out = <<>> /\ Len(disk["p"].data) = 3 /\ fdt[h[1].fd_].off = 3
    /\ h[1].buf_i_ = 0 /\ h[1].buf_size_ = 0

\* ------------------------------------- read_line alone (SpecLines)
NextLines == ReadLineStep

SpecLines == InitOpened(DataBytes) /\ [][NextLines]_vars

\* the segments of data that end in LF, and after them the bytes that follow the
\* last LF when there are any
RECURSIVE Segments(_, _)
Segments(data, seg) ==
    IF data = <<>> THEN (IF seg = <<>> THEN <<>> ELSE <<seg>>)
    ELSE IF Head(data) = LF THEN <<seg>> \o Segments(Tail(data), <<>>)
    ELSE Segments(Tail(data), Append(seg, Head(data)))

\* seg, or seg without the CR it ends with
IsLineOf(line, seg) ==
    \/ line = seg
    \/ seg # <<>> /\ seg[Len(seg)] = CR /\ line = SubSeq(seg, 1, Len(seg) - 1)

\* C7: from a freshly opened file, the k-th read_line that returns true returns
\* the k-th segment of the file (LF-terminated segments in order, then a
\* non-empty unterminated rest), without its LF; a read_line returns false only
\* after all of them, and then leaves the line empty.
C7_ReadLineSegments ==
    (ret.op = "read_line" /\ g.hist[1] = "lines")
    => LET segs == Segments(Data1, <<>>)
           k == Len(g.got[1])
       IN  /\ ret.status = "ok"
           /\ k <= Len(segs)
           /\ \A j \in 1..k : IsLineOf(g.got[1][j], segs[j]) /\ LF \notin Range(g.got[1][j])
           /\ ret.n = 1 => ret.out = g.got[1][k]
           /\ ret.n = 0 => (k = Len(segs) /\ ret.out = <<>>)

\* false after two lines, the second of them unterminated
C7_Witness ==
    /\ ret.op = "read_line" /\ ret.status = "ok" /\ ret.n = 0 /\ g.hist[1] = "lines"
    /\ Len(g.got[1]) = 2 /\ Data1[Len(Data1)] # LF

\* C27: when read_line meets a CR LF pair whose LF is the first byte of a buffer
\* fill (the CR was the last byte of the fill before), the line it returns ends
\* with that CR; when both bytes are in one fill the line has neither.
C27_StraddledCRIsKept ==
    [][LET p == ret'.from
           q == NextLinePos(Data1, p)
           fill == fdt'[h'[1].fd_].off - h'[1].buf_size_
       IN  (/\ ret'.op = "read_line" /\ ret'.status = "ok" /\ ret'.n = 1
            /\ g.hist[1] \in {"fresh", "lines"}
            /\ q >= p + 2 /\ Data1[q] = LF /\ Data1[q - 1] = CR)
           => IF fill = q - 1
              THEN ret'.out = Slice(Data1, p, q - 1)
              ELSE ret'.out = Slice(Data1, p, q - 2)]_vars

\* "a\r\n" read through a 2-byte buffer: the refill falls between CR and LF
C27_Witness ==
    /\ ret.op = "read_line" /\ ret.n = 1 /\ ret.out = <<"a", CR>>
    /\ Data1 = <<"a", CR, LF>> /\ h[1].buf_cap_ = 2 /\ h[1].buf_size_ = 1 /\ h[1].buf_i_ = 1

\* ------------------------------------- LF and CRLF encodings (SpecCRLF)
LineBytes == {"a"}

\* the lines, each followed by eol, the last one only when term
RECURSIVE Encode(_, _, _)
Encode(lines, eol, term) ==
    IF lines = <<>> THEN <<>>
    ELSE IF Len(lines) = 1 THEN Head(lines) \o (IF term THEN eol ELSE <<>>)
    ELSE Head(lines) \o eol \o Encode(Tail(lines), eol, term)

\* "p" holds the LF encoding and "q" the CRLF encoding of the same lines; slot 1
\* is file::open("p") and slot 2 is file::open("q")
InitCRLF ==
    /\ \E lines \in SeqsUpTo(SeqsUpTo(LineBytes, MaxLineLen), MaxLines),
          term \in BOOLEAN, blksize \in BlockSizes :
          /\ term \/ (lines # <<>> /\ lines[Len(lines)] # <<>>)
          /\ LET w0 == [BlankWorld(Encode(lines, <<LF>>, term)) EXCEPT
                           !.disk["q"] = [exists |-> TRUE,
                                          data |-> Encode(lines, <<CR, LF>>, term)],
                           !.g.lines = lines]
                 w1 == Open(w0, 1, "p", "read", OpenEnv(blksize)).w
             IN  IsWorld(Open(w1, 2, "q", "read", OpenEnv(blksize)).w)
    /\ ret = NoRet
    /\ iter = NoIter

ReadLineLF == \E chunk \in Chunks(1) : DoReadLine(1, OsEnv(chunk))
ReadLineCRLF == \E chunk \in Chunks(2) : DoReadLine(2, OsEnv(chunk))

NextCRLF == ReadLineLF \/ ReadLineCRLF

SpecCRLF == InitCRLF /\ [][NextCRLF]_vars

IsPrefix(s, t) == Len(s) <= Len(t) /\ s = SubSeq(t, 1, Len(s))

\* C8: read_line over the LF encoding and over the CRLF encoding of the same
\* logical lines both return those lines, in order and without CR or LF, and
\* return false only after the last of them, as long as no refill of the CRLF
\* file began between a CR and its LF.
C8_SameLines ==
    \A i \in HandleIds :
        ~g.straddle[i]
        => /\ IsPrefix(g.got[i], g.lines)
           /\ (ret.op = "read_line" /\ ret.hid = i /\ ret.n = 0)
                  => (ret.status = "ok" /\ g.got[i] = g.lines)

\* both encodings were read to the end, the CRLF one across a refill, and gave two lines
C8_Witness ==
    /\ ret.op = "read_line" /\ ret.n = 0 /\ ret.status = "ok"
    /\ Len(g.lines) = 2 /\ g.got[1] = g.lines /\ g.got[2] = g.lines
    /\ ~g.straddle[2] /\ fdt[h[2].fd_].off > h[2].buf_cap_

\* ------------------------------------- write, close, reopen (SpecWrite)
WriteBytes == {"a", "b"}

\* auto f = file::open("p", mode::write) over a path that is absent or holds old bytes
InitWrite ==
    /\ \E old \in {<<>>, <<"b", "b">>}, exists \in BOOLEAN, blksize \in BlockSizes :
          /\ exists \/ old = <<>>
          /\ LET w0 == [BlankWorld(old) EXCEPT !.disk["p"].exists = exists]
             IN  IsWorld(Open(w0, 1, "p", "write", OpenEnv(blksize)).w)
    /\ ret = NoRet
    /\ iter = NoIter

WriteStep ==
    \E buffer \in SeqsUpTo(WriteBytes, MaxFileLen), chunk \in Chunks(1) :
        /\ Len(g.wrote[1]) + Len(buffer) <= MaxFileLen
        /\ DoWrite(1, buffer, OsEnv(chunk))
CloseStep == \E chunk \in Chunks(1) : DoClose(1, OsEnv(chunk))
\* auto r = file::open("p") once f is closed
ReopenStep == closed(h[1]) /\ \E blksize \in BlockSizes : DoOpen(2, "p", "read", OpenEnv(blksize))
ReadAllStep == \E chunk \in Chunks(2) : DoRead(2, -1, OsEnv(chunk))

NextWrite == WriteStep \/ CloseStep \/ ReopenStep \/ ReadAllStep

SpecWrite == InitWrite /\ [][NextWrite]_vars

\* C3: after the writes on a write-mode file returned success and the file was
\* closed, read() on the reopened path returns the written data, in order.
C3_RoundTrip ==
    (ret.op = "read" /\ ret.hid = 2 /\ ret.from = 0)
    => (ret.status = "ok" /\ ret.out = g.wrote[1])

\* ------------------------------------- moved and moved-from objects (SpecMove)
\* auto f = file::open("p", mode) in slot 1; slot 2 is empty
InitMove ==
    /\ \E data \in SeqsUpTo(StreamBytes, MaxFileLen), blksize \in BlockSizes,
          mode \in {"read", "write"} :
          /\ mode = "write" => data = <<>>
          /\ IsWorld(Open(BlankWorld(data), 1, "p", mode, OpenEnv(blksize)).w)
    /\ ret = NoRet
    /\ iter = NoIter

MoveConstructStep == \E dst, src \in HandleIds : DoMoveConstruct(dst, src)
MoveAssignStep == \E dst, src \in HandleIds : DoMoveAssign(dst, src, OsEnv(1))
MovedReadStep == \E i \in HandleIds, count \in {-1, 1} : DoRead(i, count, OsEnv(h[i].buf_cap_))
MovedReadBytesStep == \E i \in HandleIds : DoReadBytes(i, 1, OsEnv(h[i].buf_cap_))
MovedReadIntoCapacityStep == \E i \in HandleIds : DoReadIntoCapacity(i, 1, 0, OsEnv(h[i].buf_cap_))
MovedReadLineStep == \E i \in HandleIds : DoReadLine(i, OsEnv(h[i].buf_cap_))
MovedWriteStep == \E i \in HandleIds : DoWrite(i, <<"a">>, OsEnv(h[i].buf_cap_))
MovedFlushStep == \E i \in HandleIds : DoFlush(i, OsEnv(h[i].buf_cap_))
MovedSeekStep == \E i \in HandleIds : DoSeek(i, 0, "set")
MovedTellStep == \E i \in HandleIds : DoTell(i)
MovedSyncStep == \E i \in HandleIds : DoSync(i, OsEnv(h[i].buf_cap_))

NextMove ==
    \/ MoveConstructStep
    \/ MoveAssignStep
    \/ MovedReadStep
    \/ MovedReadBytesStep
    \/ MovedReadIntoCapacityStep
    \/ MovedReadLineStep
    \/ MovedWriteStep
    \/ MovedFlushStep
    \/ MovedSeekStep
    \/ MovedTellStep
    \/ MovedSyncStep

SpecMove == InitMove /\ [][NextMove]_vars

MoveOps == {"move_construct", "move_assign"}

\* C5: a file built or assigned from a read-mode source that had consumed part
\* of its buffer has the buf_size and buf_i the source had, and its next read,
\* read_bytes, read_into_capacity or read_line returns the bytes that follow
\* the source's logical position.
C5_MovedBehavesAsSource ==
    /\ (ret.op \in MoveOps /\ ret.hid # ret.arg /\ h[ret.hid].mode_ = "read" /\ ret.from > 0)
       => (h[ret.hid].buf_size_ = ret.n /\ h[ret.hid].buf_i_ = ret.from)
    /\ (ret.op \in {"read", "read_bytes", "read_into_capacity"} /\ ret.from >= 0
          /\ can_read(h[ret.hid]))
       => (ret.status = "ok"
           /\ ret.out = Slice(FileData(World, ret.hid), ret.from, ret.from + Len(ret.out)))
    /\ (ret.op = "read_line" /\ ret.from >= 0 /\ can_read(h[ret.hid]))
       => (ret.status = "ok" /\ ret.n = 1
           => ret.out = Slice(FileData(World, ret.hid), ret.from, ret.from + Len(ret.out)))

\* C6: a moved-from file is closed, and read, read_bytes, read_line,
\* read_into_capacity, write, flush, seek, tell and sync on it return bad_file
\* and change no descriptor, offset, buffer, file content or other object.
C6_MovedFromIsInert ==
    [][/\ \A i \in g.moved' : closed(h'[i])
       /\ (ret'.hid \in g.moved /\ ret'.op \notin MoveOps)
          => /\ ret'.status = "error" /\ ret'.err = "bad_file"
             /\ UNCHANGED <<disk, fdt, heap, h>>]_vars

\* a write on the moved-from object while the new owner holds a partly consumed buffer
C6_Witness ==
    /\ ret.op = "write" /\ ret.hid \in g.moved /\ ret.err = "bad_file"
    /\ \E j \in HandleIds \ {ret.hid} : can_read(h[j]) /\ h[j].buf_i_ = 1 /\ g.lpos[j] = 1

\* ------------------------------------- staging and flushing (SpecStage)
\* auto f = file::open("p", mode) for writing or appending
InitStage ==
    /\ \E old \in {<<>>, <<"b", "b">>}, mode \in {"write", "append"}, blksize \in BlockSizes :
          IsWorld(Open(BlankWorld(old), 1, "p", mode, OpenEnv(blksize)).w)
    /\ ret = NoRet
    /\ iter = NoIter

StageWriteStep ==
    \E buffer \in SeqsUpTo(WriteBytes, MaxWriteLen), chunk \in Chunks(1) :
        DoWrite(1, buffer, OsEnv(chunk))
StageFlushStep == \E chunk \in Chunks(1) : DoFlush(1, OsEnv(chunk))

NextStage == StageWriteStep \/ StageFlushStep

SpecStage == InitStage /\ [][NextStage]_vars

\* the bytes staged in the write buffer of slot i
Staged(w, i) == SubSeq(Ctx(w, i).mem, 1, w.h[i].buf_i_)

\* C12: with no OS error every write(buffer, count) on a write- or append-mode
\* file returns count, and after every write and flush the bytes given to the
\* raw writes so far, followed by the bytes staged in the buffer, are the data
\* of all writes since open, in call order.
C12_StagedInOrder ==
    /\ ret.op = "write" => (ret.status = "ok" /\ ret.n = Len(ret.arg))
    /\ g.handed[1] \o Staged(World, 1) = g.wrote[1]

\* one write of 5 bytes through a 2-byte buffer: two flushes and a staged byte
C12_Witness ==
    /\ ret.op = "write" /\ ret.status = "ok" /\ Len(ret.arg) = 5 /\ ret.n = 5
    /\ h[1].buf_cap_ = 2 /\ Len(g.handed[1]) = 4 /\ h[1].buf_i_ = 1

\* where the next raw write on slot i puts its bytes
WriteAt(w, i) ==
    LET e == w.fdt[w.h[i].fd_]
    IN  IF e.app THEN Len(w.disk[e.path].data) ELSE e.off

\* C13: a flush() that returns success on a writable file leaves buf_i at 0 and
\* has put every byte that was staged before it into the file, however many
\* bytes the raw write accepted.
C13_FlushWritesAll ==
    [][(ret'.op = "flush" /\ ret'.status = "ok" /\ can_write(h[1]))
       => /\ h'[1].buf_i_ = 0
          /\ Staged(World, 1) # <<>>
             => disk'["p"].data = Overwrite(disk["p"].data, WriteAt(World, 1),
                                            Staged(World, 1))]_vars

\* ------------------------------------- seeking with staged bytes (SpecSeek)
\* auto f = file::open("p", mode) in any mode
InitSeek ==
    /\ \E mode \in Modes, blksize \in BlockSizes :
          IsWorld(Open(BlankWorld(<<"b", "b">>), 1, "p", mode, OpenEnv(blksize)).w)
    /\ ret = NoRet
    /\ iter = NoIter

StageSeeks ==
    ([mode : {"set"}, offset : {0, 1}]) \cup ([mode : {"cur", "end"}, offset : {0}])

SeekWriteStep ==
    \E buffer \in SeqsUpTo(WriteBytes, MaxCount) :
        /\ Len(g.wrote[1]) + Len(buffer) <= MaxCount
        /\ DoWrite(1, buffer, OsEnv(h[1].buf_cap_))
SeekFlushStep == \E chunk \in Chunks(1) : DoFlush(1, OsEnv(chunk))
SeekReadStep == DoRead(1, 1, OsEnv(h[1].buf_cap_))
SeekSeekStep == \E s \in StageSeeks : DoSeek(1, s.offset, s.mode)
SeekCloseStep == DoClose(1, OsEnv(h[1].buf_cap_))
SeekDestroyStep == DoDestroy(1, OsEnv(h[1].buf_cap_))

NextSeek ==
    \/ SeekWriteStep
    \/ SeekFlushStep
    \/ SeekReadStep
    \/ SeekSeekStep
    \/ SeekCloseStep
    \/ SeekDestroyStep

SpecSeek == InitSeek /\ [][NextSeek]_vars

\* the bytes the object of slot i still has to hand to a raw write
Pending(w, i) ==
    IF w.h[i].live /\ w.h[i].mode_ # "read" THEN Staged(w, i) ELSE <<>>

\* C14: a successful seek leaves buf_size and buf_i at 0 in every mode, and the
\* bytes that were staged when it was called are never given to a raw write:
\* what write, flush, close and destruction hand over, followed by what is
\* still staged, is the written data less those bytes.
C14_SeekDiscards ==
    /\ (ret.op = "seek" /\ ret.status = "ok")
       => (h[1].buf_size_ = 0 /\ h[1].buf_i_ = 0)
    /\ g.handed[1] \o Pending(World, 1) = g.kept[1]

\* the object is gone after a seek dropped staged bytes and a later write was flushed
C14_Witness ==
    /\ ret.op = "destroy" /\ ~h[1].live
    /\ Len(g.kept[1]) < Len(g.wrote[1]) /\ g.handed[1] = g.kept[1]
    /\ g.handed[1] # <<>> /\ g.handed[1][Len(g.handed[1])] = "a" /\ g.wrote[1][1] = "b"

\* ------------------------------------- for (auto& line : f.lines()) (SpecIter)
\* the OS during one read_line: short reads, and a raw read that may fail
IterEnvs ==
    {[OsEnv(chunk) EXCEPT !.failAt = failAt, !.errno = "EIO"] :
        chunk \in Chunks(1), failAt \in {0, 1}}

BeginStep == \E env \in IterEnvs : DoBegin(1, env)
IncrementStep == \E env \in IterEnvs : DoIncrement(env)

NextIter == BeginStep \/ IncrementStep

SpecIter == InitOpened(DataBytes) /\ [][NextIter]_vars

\* C17: each step of the iteration is one read_line call; the iterator is at
\* the end exactly when that call reported that no bytes were collected, and
\* otherwise its element is the line of that call, which returned true.
C17_IterIsReadLine ==
    ret.arg2 = "next"
    => /\ iter.eof_ <=> (ret.status = "ok" /\ ret.n = 0)
       /\ ~iter.eof_ => (iter.ok /\ ret.n = 1 /\ iter.line = ret.out)

\* ------------------------------------- calls the mode forbids (SpecMode)
ModeWriteStep ==
    \E buffer \in SeqsUpTo(WriteBytes, MaxCount) : DoWrite(1, buffer, OsEnv(h[1].buf_cap_))
ModeFlushStep == DoFlush(1, OsEnv(h[1].buf_cap_))
ModeSyncStep == DoSync(1, OsEnv(h[1].buf_cap_))
ModeReadStep == \E count \in {-1, 1} : DoRead(1, count, OsEnv(h[1].buf_cap_))
ModeReadBytesStep == \E count \in {-1, 1} : DoReadBytes(1, count, OsEnv(h[1].buf_cap_))
ModeReadLineStep == DoReadLine(1, OsEnv(h[1].buf_cap_))
ModeReadIntoCapacityStep == DoReadIntoCapacity(1, 1, 0, OsEnv(h[1].buf_cap_))

NextMode ==
    \/ ModeWriteStep
    \/ ModeFlushStep
    \/ ModeSyncStep
    \/ ModeReadStep
    \/ ModeReadBytesStep
    \/ ModeReadLineStep
    \/ ModeReadIntoCapacityStep

SpecMode == InitSeek /\ [][NextMode]_vars

WriteOps == {"write", "flush", "sync"}

\* C18: write, flush and sync on an open read-mode file, and read, read_bytes,
\* read_line and read_into_capacity on an open write- or append-mode file,
\* return bad_file and leave the object, its buffer, the descriptor's offset
\* and the file as they were.
C18_WrongModeIsInert ==
    [][(\/ ret'.op \in WriteOps /\ h[1].mode_ = "read"
        \/ ret'.op \in ReadOps /\ h[1].mode_ \in {"write", "append"})
       => /\ ret'.status = "error" /\ ret'.err = "bad_file"
          /\ UNCHANGED <<disk, fdt, heap, h>>]_vars

\* flush on a read-mode file that holds an unread byte in its buffer
C18_Witness ==
    /\ ret.op = "flush" /\ ret.err = "bad_file" /\ h[1].mode_ = "read"
    /\ h[1].buf_size_ = 2 /\ h[1].buf_i_ = 1

\* C33: sync() leaves buf_i and the staged bytes as they are and gives no byte
\* to a raw write, so the file does not hold the bytes written since the last
\* flush when sync() returns.
C33_SyncDoesNotFlush ==
    [][ret'.op = "sync"
       => /\ UNCHANGED <<disk, fdt, heap, h>>
          /\ g'.handed[1] = g.handed[1]
          /\ Staged(NextWorld, 1) = Staged(World, 1)]_vars

\* sync() succeeded on a write-mode file while the only byte written is staged
C33_Witness ==
    /\ ret.op = "sync" /\ ret.status = "ok" /\ h[1].mode_ = "write"
    /\ h[1].buf_i_ = 1 /\ g.wrote[1] = <<"a">> /\ g.handed[1] = <<>>
    /\ disk["p"].data = <<>>

\* ------------------------------------- calls after close() (SpecClose)
CloseTellStep == DoTell(1)

NextClose ==
    \/ SeekWriteStep
    \/ ModeFlushStep
    \/ ModeSyncStep
    \/ ModeReadStep
    \/ ModeReadBytesStep
    \/ ModeReadLineStep
    \/ ModeReadIntoCapacityStep
    \/ SeekSeekStep
    \/ CloseTellStep
    \/ SeekCloseStep
    \/ SeekDestroyStep

SpecClose == InitSeek /\ [][NextClose]_vars

CallOps ==
    {"read", "read_bytes", "read_line", "read_into_capacity", "write", "flush", "seek",
     "tell", "sync"}

\* C19: once close() was called on a file, in any mode, closed() is true and
\* stays true, and read, read_bytes, read_line, read_into_capacity, write,
\* flush, seek, tell and sync return bad_file.
C19_ClosedStaysClosed ==
    [][/\ ret'.op = "close" => closed(h'[1])
       /\ (g.shut[1] > 0 /\ h[1].live)
          => /\ closed(h[1])
             /\ h'[1].live => closed(h'[1])
             /\ ret'.op \in CallOps => (ret'.status = "error" /\ ret'.err = "bad_file")]_vars

\* seek on an append-mode file after close()
C19_Witness ==
    /\ g.shut[1] > 0 /\ ret.op = "seek" /\ ret.err = "bad_file" /\ h[1].mode_ = "append"

\* C20: a close() after the first one makes no raw write and no ::close and
\* changes nothing, and neither does the close inside the destructor then; so
\* over all closes and the destruction no written byte is handed to a raw
\* write twice.
C20_CloseIsIdempotent ==
    [][/\ (g.shut[1] > 0 /\ h[1].live)
          => /\ \A chunk \in Chunks(1) :
                    Close(Ctx(World, 1), OsEnv(chunk)).c = Ctx(World, 1)
             /\ ret'.op = "close" => UNCHANGED <<disk, fdt, heap, h>>
             /\ ret'.op \in {"close", "destroy"}
                => (g'.handed[1] = g.handed[1] /\ UNCHANGED <<disk, fdt>>)
       /\ IsPrefix(g'.handed[1], g'.kept[1])]_vars

\* a second close() on a write-mode file whose staged byte the first close wrote
C20_Witness ==
    /\ ret.op = "close" /\ g.shut[1] = 2 /\ h[1].mode_ = "write"
    /\ g.handed[1] = <<"a">> /\ disk["p"].data = <<"a">>

\* C35: until close() is called size() and block_size() are the size the
\* file had and the block size the OS reported when the handle was opened; no
\* read, write, flush, seek, tell or sync changes them, and close() makes both 0.
C35_SizeIsCached ==
    [][/\ (ret'.op \in CallOps /\ h[1].live)
          => (size(h'[1]) = size(h[1]) /\ block_size(h'[1]) = block_size(h[1]))
       /\ (h'[1].live /\ g'.shut[1] = 0)
          => /\ size(h'[1]) = (IF h'[1].mode_ = "write" THEN 0 ELSE 2)
             /\ block_size(h'[1]) = h'[1].buf_cap_
       /\ ret'.op = "close" => (size(h'[1]) = 0 /\ block_size(h'[1]) = 0)]_vars

\* a flush made an append-mode file one byte longer; size() is still the size at open
C35_Witness ==
    /\ ret.op = "flush" /\ ret.status = "ok" /\ h[1].mode_ = "append"
    /\ Len(disk["p"].data) = 3 /\ size(h[1]) = 2 /\ block_size(h[1]) = 3

\* ------------------------------------- the life of two objects (SpecLife)
\* auto f = file::open("p", mode) in slot 1; a second object may be opened on
\* "q", and objects are moved, closed and destroyed
InitLife ==
    /\ \E mode \in Modes : IsWorld(Open(BlankWorld(<<"b", "b">>), 1, "p", mode, OpenEnv(2)).w)
    /\ ret = NoRet
    /\ iter = NoIter

\* auto f2 = file::open("q", mode::write) while no other object has "q" open
LifeOpenStep ==
    /\ \A x \in Fds : ~(fdt[x].open /\ fdt[x].path = "q")
    /\ DoOpen(2, "q", "write", OpenEnv(2))
LifeWriteStep ==
    \E i \in HandleIds :
        /\ Len(g.wrote[1]) + Len(g.wrote[2]) < MaxCount
        /\ DoWrite(i, <<"a">>, OsEnv(h[i].buf_cap_))
LifeFlushStep == \E i \in HandleIds : DoFlush(i, OsEnv(h[i].buf_cap_))
LifeReadStep == \E i \in HandleIds : DoRead(i, 1, OsEnv(h[i].buf_cap_))
LifeMoveConstructStep == \E dst, src \in HandleIds : DoMoveConstruct(dst, src)
LifeMoveAssignStep == \E dst, src \in HandleIds : DoMoveAssign(dst, src, OsEnv(h[dst].buf_cap_))
LifeCloseStep == \E i \in HandleIds : DoClose(i, OsEnv(h[i].buf_cap_))
LifeDestroyStep == \E i \in HandleIds : DoDestroy(i, OsEnv(h[i].buf_cap_))

NextLife ==
    \/ LifeOpenStep
    \/ LifeWriteStep
    \/ LifeFlushStep
    \/ LifeReadStep
    \/ LifeMoveConstructStep
    \/ LifeMoveAssignStep
    \/ LifeCloseStep
    \/ LifeDestroyStep

SpecLife == InitLife /\ [][NextLife]_vars

\* C21: a closed handle has size() = 0 and block_size() = 0, whether close()
\* closed it or a move construction or move assignment took its descriptor.
C21_ClosedIsZeroed ==
    \A i \in HandleIds :
        (h[i].live /\ closed(h[i])) => (size(h[i]) = 0 /\ block_size(h[i]) = 0)

\* C22: every handle has 0 <= buf_size <= buf_cap, and 0 <= buf_i <= buf_size
\* in read mode, 0 <= buf_i <= buf_cap in write or append mode.
C22_CursorsInBounds ==
    \A i \in HandleIds :
        h[i].live
        => /\ 0 <= h[i].buf_size_ /\ h[i].buf_size_ <= h[i].buf_cap_
           /\ 0 <= h[i].buf_i_
           /\ h[i].mode_ = "read" => h[i].buf_i_ <= h[i].buf_size_
           /\ h[i].mode_ \in {"write", "append"} => h[i].buf_i_ <= h[i].buf_cap_

\* C23: no buffer is freed twice, every allocated buffer is held by exactly
\* one object (which frees it when it is destroyed or assigned over), a
\* moved-from object holds no buffer, and close() leaves the heap as it is.
C23_BufferFreedOnce ==
    [][/\ ~g'.badfree
       /\ \A b \in BufIds :
             heap'[b].alloc <=> Cardinality({i \in HandleIds : h'[i].live /\ h'[i].buffer_ = b}) = 1
       /\ \A i \in HandleIds : (h'[i].live /\ h'[i].buffer_ # 0) => heap'[h'[i].buffer_].alloc
       /\ \A i \in g'.moved : h'[i].buffer_ = 0
       /\ ret'.op = "close" => heap' = heap
       /\ (ret'.op = "destroy" /\ h[ret'.hid].buffer_ # 0)
          => ~heap'[h[ret'.hid].buffer_].alloc]_vars

\* the moved-from object is destroyed while the new owner holds the buffer
C23_Witness ==
    /\ ret.op = "destroy" /\ ~h[1].live /\ h[2].live /\ h[2].buffer_ = 1
    /\ heap[1].alloc /\ ~heap[2].alloc

FailErrnos == {"EINTR", "EIO"}
FailEnvs(i) ==
    {[OsEnv(h[i].buf_cap_) EXCEPT !.failAt = failAt, !.errno = errno] :
        failAt \in 1..2, errno \in FailErrnos}
MayFail(i) == FailEnvs(i) \cup {OsEnv(h[i].buf_cap_)}

\* the buffers given to write: up to two fills of the smallest buffer and a byte
FailBuffers == {[k \in 1..n |-> "a"] : n \in 0..MaxWriteLen}

FailWriteStep ==
    \E buffer \in FailBuffers, env \in MayFail(1) :
        /\ Len(disk["p"].data) + h[1].buf_i_ + Len(buffer) <= MaxWriteLen + 2
        /\ DoWrite(1, buffer, env)
FailFlushStep == \E env \in MayFail(1) : DoFlush(1, env)
FailReadStep == \E count \in {-1, 1, 2}, env \in MayFail(1) : DoRead(1, count, env)
FailReadBytesStep == \E count \in {-1, 1, 2}, env \in MayFail(1) : DoReadBytes(1, count, env)
FailReadLineStep == \E env \in MayFail(1) : DoReadLine(1, env)
FailReadIntoCapacityStep ==
    \E cap \in 1..MaxVecCap, env \in MayFail(1) : DoReadIntoCapacity(1, cap, 0, env)
FailCloseStep == \E env \in MayFail(1) : DoClose(1, env)
FailDestroyStep == \E env \in MayFail(1) : DoDestroy(1, env)

NextFail ==
    \/ FailWriteStep
    \/ FailFlushStep
    \/ FailReadStep
    \/ FailReadBytesStep
    \/ FailReadLineStep
    \/ FailReadIntoCapacityStep
    \/ FailCloseStep
    \/ FailDestroyStep

SpecFail == InitSeek /\ [][NextFail]_vars

\* C24: when the raw write of the flush inside close() or inside the destructor
\* fails on a writable file, close() still returns normally, the descriptor is
\* given to ::close, closed() is true, and no staged byte reaches a raw write
\* or the file.
C24_CloseSwallowsFlushError ==
    (h[1].live /\ can_write(h[1]))
    => \A env \in {e \in FailEnvs(1) : e.failAt = 1} :
          LET c == Ctx(World, 1)
              r == Close(c, env)
              w1 == Destroy(World, 1, env)
          IN  /\ r.status = "ok" /\ r.err = "none"
              /\ closed(r.c.f) /\ r.c.closes = {c.f.fd_}
              /\ r.c.handed = <<>> /\ r.c.data = c.data
              /\ r.c.f.buf_i_ = c.f.buf_i_
              /\ Close(r.c, OsEnv(c.f.buf_cap_)).c.handed = <<>>
              /\ ~w1.fdt[c.f.fd_].open /\ w1.disk = disk /\ ~w1.h[1].live

\* close() on a write-mode file whose flush failed: the staged byte was dropped
C24_Witness ==
    /\ ret.op = "close" /\ ret.status = "ok" /\ closed(h[1]) /\ h[1].mode_ = "write"
    /\ h[1].buf_i_ = 1 /\ g.wrote[1] = <<"a">> /\ g.handed[1] = <<>>
    /\ disk["p"].data = <<>> /\ \A x \in Fds : ~fdt[x].open

\* what the operations of C25 return on the object of slot 1 under env
FailCalls(env) ==
    LET c == Ctx(World, 1)
    IN  {ReadStr(c, count, env) : count \in {-1, 1, 2}}
        \cup {ReadBytes(c, count, env) : count \in {-1, 1, 2}}
        \cup {ReadIntoCapacity(c, cap, 0, env) : cap \in 1..MaxVecCap}
        \cup {ReadLine(c, env), Flush(c, env)}
        \cup {Write(c, buffer, env) : buffer \in FailBuffers}

\* C25: a read, read_bytes, read_line, read_into_capacity, write or flush whose
\* raw read or raw write fails returns the error of that raw call and makes no
\* raw call after it; a write then leaves in the file the bytes of the flushes
\* it completed before, and leaves the bytes of the failed flush staged.
C25_RawErrorStopsCall ==
    h[1].live
    => \A env \in FailEnvs(1) :
          LET c == Ctx(World, 1)
          IN  /\ \A r \in FailCalls(env) :
                    r.c.calls >= env.failAt
                    => /\ r.status = "error" /\ r.err = to_error(env.errno)
                       /\ r.c.calls = env.failAt
              /\ \A buffer \in FailBuffers :
                    LET r == Write(c, buffer, env)
                        at == IF c.app THEN Len(c.data) ELSE c.off
                    IN  r.c.calls >= env.failAt
                        => /\ r.c.f.buf_i_ = c.f.buf_cap_
                           /\ r.c.data = Overwrite(c.data, at, r.c.handed)
                           /\ r.c.handed \o SubSeq(r.c.mem, 1, r.c.f.buf_i_)
                              = SubSeq(Staged(World, 1) \o buffer, 1,
                                       Len(r.c.handed) + r.c.f.buf_i_)

\* a write whose second flush was interrupted: the first two bytes are in the
\* file, the next two are still staged
C25_Witness ==
    /\ ret.op = "write" /\ ret.status = "error" /\ ret.err = "interrupted"
    /\ h[1].mode_ = "write" /\ h[1].buf_cap_ = 2 /\ h[1].buf_i_ = 2
    /\ disk["p"].data = <<"a", "a">> /\ Staged(World, 1) = <<"a", "a">>
    /\ g.wrote[1] = <<>>

\* C36 as stated: after every write that returns success buf_i < buf_cap, and
\* the flushes of the write gave buf_cap bytes each to the raw layer.
C36_NeverLeftFull ==
    [][(ret'.op = "write" /\ ret'.status = "ok" /\ can_write(h[1]))
       => /\ h'[1].buf_i_ < h'[1].buf_cap_
          /\ (Len(g'.handed[1]) - Len(g.handed[1])) % h[1].buf_cap_ = 0]_vars

\* C36, amended: the same for every successful write that stages at least one
\* byte or starts with buf_i < buf_cap; and a write of count bytes starting at
\* buf_i makes (buf_i + count) \div buf_cap raw writes of buf_cap bytes each.
C36_NotLeftFullByStaging ==
    [][(/\ ret'.op = "write" /\ ret'.status = "ok" /\ can_write(h[1])
        /\ (Len(ret'.arg) > 0 \/ h[1].buf_i_ < h[1].buf_cap_))
       => /\ h'[1].buf_i_ < h'[1].buf_cap_
          /\ h'[1].buf_i_ = (h[1].buf_i_ + Len(ret'.arg)) % h[1].buf_cap_
          /\ Len(g'.handed[1]) - Len(g.handed[1])
             = ((h[1].buf_i_ + Len(ret'.arg)) \div h[1].buf_cap_) * h[1].buf_cap_]_vars

\* a write of buf_cap bytes into an empty buffer: flushed before write returned
C36_Witness ==
    /\ ret.op = "write" /\ ret.status = "ok" /\ ret.arg = <<"a", "a">>
    /\ h[1].buf_cap_ = 2 /\ h[1].buf_i_ = 0 /\ g.handed[1] = <<"a", "a">>
    /\ h[1].mode_ = "write" /\ disk["p"].data = <<"a", "a">>

\* what the reading operations of C37 return on the object of slot 1 under env
FailReads(env) ==
    LET c == Ctx(World, 1)
    IN  {ReadStr(c, count, env) : count \in {-1, 1, 2}}
        \cup {ReadBytes(c, count, env) : count \in {-1, 1, 2}}
        \cup {ReadBuf(c, count, env) : count \in 1..2}
        \cup {ReadIntoCapacity(c, cap, 0, env) : cap \in 1..MaxVecCap}
        \cup {ReadLine(c, env)}

\* C37: a read, read_bytes, read_line or read_into_capacity whose refill fails
\* returns the error with buf_i = buf_size, buf_size being what it was before
\* the failed refill and the file offset where the refills before it left it;
\* a retry delivers the file's bytes from that offset on, so none of the bytes
\* the failed call had taken from the buffer is delivered again.
C37_FailedRefillKeepsPlace ==
    (h[1].live /\ can_read(h[1]))
    => \A env \in FailEnvs(1) :
          LET c == Ctx(World, 1)
              ok == OsEnv(c.f.buf_cap_)
              first == Refill([c EXCEPT !.f.buf_i_ = c.f.buf_size_], ok)
              before == IF env.failAt = 1 THEN c ELSE first.c
          IN  \A r \in FailReads(env) :
                 r.status = "error"
                 => /\ r.err = to_error(env.errno)
                    /\ r.c.f.buf_i_ = r.c.f.buf_size_
                    /\ r.c.f.buf_size_ = before.f.buf_size_
                    /\ r.c.off = before.off /\ r.c.mem = before.mem
                    /\ r.c.off >= c.off
                    /\ \A count \in 1..MaxCount :
                          /\ ReadStr(r.c, count, ok).out
                             = SubSeq(c.data, r.c.off + 1, Min(r.c.off + count, Len(c.data)))
                          /\ ReadBytes(r.c, count, ok).out = ReadStr(r.c, count, ok).out
                          /\ ReadIntoCapacity(r.c, count, 0, ok).out
                             = ReadStr(r.c, count, ok).out
                    /\ LET l == ReadLine(r.c, ok)
                       IN  /\ l.status = "ok"
                           /\ l.out = SubSeq(c.data, r.c.off + 1, r.c.off + Len(l.out))

\* a read of two bytes took the byte left in the buffer and its refill failed
C37_Witness ==
    /\ ret.op = "read" /\ ret.arg = 2 /\ ret.status = "error" /\ ret.err = "interrupted"
    /\ can_read(h[1]) /\ h[1].buf_i_ = 2 /\ h[1].buf_size_ = 2
    /\ fdt[h[1].fd_].off = 2 /\ g.lpos[1] = -1

\* ------------------------------------- read_line after other reads (SpecMixed)
\* a read-mode file over {a, CR, LF}; reads of one byte and read_line alternate
MixedReadStep == DoRead(1, 1, OsEnv(h[1].buf_cap_))
MixedReadBytesStep == DoReadBytes(1, 1, OsEnv(h[1].buf_cap_))
MixedReadIntoCapacityStep == DoReadIntoCapacity(1, 1, 0, OsEnv(h[1].buf_cap_))
MixedReadLineStep == \E chunk \in Chunks(1) : DoReadLine(1, OsEnv(chunk))

NextMixed ==
    \/ MixedReadStep
    \/ MixedReadBytesStep
    \/ MixedReadIntoCapacityStep
    \/ MixedReadLineStep

SpecMixed == InitOpened(DataBytes) /\ [][NextMixed]_vars

\* C29: read_line never appends a span longer than buf_i - start, so it neither
\* throws nor reads outside the buffer; called when the previous read, read_bytes
\* or read_into_capacity consumed the CR that stands right before an LF of the
\* same fill, it returns true with an empty line.
C29_StripStaysInLine ==
    [][(ret'.op = "read_line" /\ can_read(h[1]))
       => /\ ret'.status \notin {"throw", "ub"}
          /\ (/\ ret.op \in {"read", "read_bytes", "read_into_capacity"}
              /\ h[1].buf_i_ > 0 /\ h[1].buf_i_ < h[1].buf_size_
              /\ heap[h[1].buffer_].mem[h[1].buf_i_] = CR
              /\ heap[h[1].buffer_].mem[h[1].buf_i_ + 1] = LF)
             => (ret'.status = "ok" /\ ret'.n = 1 /\ ret'.out = <<>>)]_vars

\* ------------------------------------- the exception-based header (SpecThrow)
\* raw::write of the header that throws: no mode test of its own; ::write fails
\* with EBADF on a closed descriptor or on one opened read-only
ThrowingRawWrite(c, count, env) ==
    LET r == RawWrite(c, count, env)
    IN  IF r.status = "ok" THEN r
        ELSE Result([c EXCEPT !.calls = @ + 1], "throw", "runtime_error", 0, <<>>)

\* file::flush of that header
ThrowingFlush(c, env) ==
    IF closed(c.f) THEN Result(c, "throw", "runtime_error", 0, <<>>)
    ELSE IF c.f.mode_ # "write" \/ c.f.mode_ # "append"
    THEN Result(c, "throw", "runtime_error", 0, <<>>)
    ELSE LET res == ThrowingRawWrite(c, c.f.buf_i_, env)
         IN  IF res.status # "ok" THEN res
             ELSE Result([res.c EXCEPT !.f.buf_i_ = 0], "ok", "none", 0, <<>>)

RECURSIVE ThrowingWriteLoop(_, _, _, _)
\* the loop of file::write of that header
ThrowingWriteLoop(c, buffer, written, env) ==
    IF written = Len(buffer) THEN Result(c, "ok", "none", written, <<>>)
    ELSE LET cap_remaining == USub(c.f.buf_cap_, c.f.buf_i_)
             copy_size == Min(USub(Len(buffer), written), cap_remaining)
         IN  IF ~InBounds(c.mem, c.f.buf_i_, copy_size)
             THEN Result(c, "ub", "none", written, <<>>)
             ELSE
             LET c1 == [c EXCEPT !.mem = CopyIn(c.mem, c.f.buf_i_,
                                                SubSeq(buffer, written + 1, written + copy_size)),
                                 !.f.buf_i_ = @ + copy_size]
                 written1 == written + copy_size
             IN  IF c1.f.buf_i_ = c1.f.buf_cap_
                 THEN LET res == ThrowingFlush(c1, env)
                      IN  IF res.status # "ok" THEN res
                          ELSE ThrowingWriteLoop(res.c, buffer, written1, env)
                 ELSE ThrowingWriteLoop(c1, buffer, written1, env)

\* file::write of that header
ThrowingWrite(c, buffer, env) ==
    IF closed(c.f) THEN Result(c, "throw", "runtime_error", 0, <<>>)
    ELSE IF c.f.mode_ # "write" \/ c.f.mode_ # "append"
    THEN Result(c, "throw", "runtime_error", 0, <<>>)
    ELSE ThrowingWriteLoop(c, buffer, 0, env)

\* file::close of that header: an exception of flush leaves before file_.close()
ThrowingClose(c, env) ==
    IF can_write(c.f)
    THEN LET res == ThrowingFlush(c, env)
         IN  IF res.status # "ok" THEN res
             ELSE Result(RawClose(res.c), "ok", "none", 0, <<>>)
    ELSE Result(RawClose(c), "ok", "none", 0, <<>>)

\* the caller catches what a call throws and goes on
ThrowWriteStep ==
    \E buffer \in SeqsUpTo(WriteBytes, MaxCount) :
        /\ h[1].live
        /\ Returns(1, "write", buffer, "", ThrowingWrite(Ctx(World, 1), buffer, OsEnv(h[1].buf_cap_)))
ThrowFlushStep ==
    /\ h[1].live
    /\ Returns(1, "flush", 0, "", ThrowingFlush(Ctx(World, 1), OsEnv(h[1].buf_cap_)))
ThrowCloseStep ==
    /\ h[1].live
    /\ Returns(1, "close", 0, "", ThrowingClose(Ctx(World, 1), OsEnv(h[1].buf_cap_)))

NextThrow == ThrowWriteStep \/ ThrowFlushStep \/ ThrowCloseStep

SpecThrow == InitSeek /\ [][NextThrow]_vars

\* C28: write and flush reject a handle exactly when it is closed or was opened
\* in read mode; on a handle opened in write or append mode they proceed, and so
\* does the flush inside close.
C28_ModeCheckAdmitsWriters ==
    [][/\ ret'.op \in {"write", "flush"}
          => (ret'.status # "ok" <=> (closed(h[1]) \/ h[1].mode_ = "read"))
       /\ (ret'.op = "close" /\ can_write(h[1]))
          => (ret'.status = "ok" /\ closed(h'[1]))]_vars

\* ------------------------------------- descriptors from open to close (SpecOpen)
\* "p" holds one byte, no object exists yet
InitOpen ==
    /\ IsWorld(BlankWorld(<<"b">>))
    /\ ret = NoRet
    /\ iter = NoIter

\* what may go wrong inside file::open: ::open, ::fstat or malloc fails
OpenEnvs ==
    {OpenEnv(2),
     [OpenEnv(2) EXCEPT !.openErr = "EACCES"],
     [OpenEnv(2) EXCEPT !.statFail = TRUE, !.errno = "EIO"],
     [OpenEnv(2) EXCEPT !.noMem = TRUE]}

OpenAnyStep ==
    \E i \in HandleIds, mode \in {"read", "write"}, env \in OpenEnvs :
        DoOpen(i, "p", mode, env)
OpenCloseStep == \E i \in HandleIds : DoClose(i, OsEnv(h[i].buf_cap_))
OpenDestroyStep == \E i \in HandleIds : DoDestroy(i, OsEnv(h[i].buf_cap_))
OpenMoveConstructStep == \E dst, src \in HandleIds : DoMoveConstruct(dst, src)
OpenMoveAssignStep == \E dst, src \in HandleIds : DoMoveAssign(dst, src, OsEnv(h[dst].buf_cap_))

NextOpen ==
    \/ OpenAnyStep
    \/ OpenCloseStep
    \/ OpenDestroyStep
    \/ OpenMoveConstructStep
    \/ OpenMoveAssignStep

SpecOpen == InitOpen /\ [][NextOpen]_vars

\* the descriptors the OS holds open
OpenFds == {x \in Fds : fdt[x].open}

\* C31: every descriptor the OS holds open belongs to exactly one handle, every
\* handle's descriptor is open, and a failed open leaves no descriptor behind;
\* so each descriptor is closed once, by close(), destruction or move
\* assignment over its owner, or inside the failing open.
C31_DescriptorsOwnedOnce ==
    /\ \A x \in Fds :
          fdt[x].open <=> Cardinality({i \in HandleIds : h[i].live /\ h[i].fd_ = x}) = 1
    /\ \A i \in HandleIds : (h[i].live /\ h[i].fd_ # -1) => h[i].fd_ \in OpenFds
    /\ (ret.op = "open" /\ ret.status = "error") => Cardinality(OpenFds) <= 1

\* ------------------------ the loops, one iteration at a time (SpecLoop)
\* One pass through the body of the while (true) of file::read(int64_t) and
\* read_bytes (count the bytes asked for) and of read_into_capacity (count the
\* spare capacity): status "more" when the loop goes round again, n the bytes
\* read so far and out the bytes collected so far.
ReadIteration(c, count, read, out, env) ==
    LET available == Available(c.f)
        copy_size == Min(USub(count, read), available)
    IN  IF ~InBounds(c.mem, c.f.buf_i_, copy_size) THEN Result(c, "ub", "none", read, out)
        ELSE
        LET out1 == out \o Span(c.mem, c.f.buf_i_, copy_size, env)
            c1 == [c EXCEPT !.f.buf_i_ = @ + copy_size]
            read1 == read + copy_size
        IN  IF read1 = count THEN Result(c1, "ok", "none", read1, out1)
            ELSE LET r == Refill(c1, env)
                 IN  IF r.status # "ok" THEN Result(r.c, "error", r.err, 0, <<>>)
                     ELSE IF r.c.f.buf_size_ = 0 THEN Result(r.c, "ok", "none", read1, out1)
                     ELSE Result(r.c, "more", "none", read1, out1)

\* the test of buffer_[buf_i_] in the body of file::read_line: with status
\* "more", n is the value of start for the next pass
ReadLineTest(c, start, line, env) ==
    IF ~InBounds(c.mem, c.f.buf_i_, 1) THEN Result(c, "ub", "none", 0, line)
    ELSE IF MemAt(c.mem, c.f.buf_i_, env) = LF
    THEN LET end0 == USub(c.f.buf_i_, start)
             strip == IF c.f.buf_i_ > 0 /\ MemAt(c.mem, c.f.buf_i_ - 1, env) = CR
                      THEN 1 ELSE 0
             end == USub(end0, strip)
         IN  IF end > StrMaxSize THEN Result(c, "throw", "length_error", 0, line)
             ELSE Result([c EXCEPT !.f.buf_i_ = @ + 1], "ok", "none", 1,
                         line \o Span(c.mem, start, end, env))
    ELSE Result([c EXCEPT !.f.buf_i_ = @ + 1], "more", "none", start, line)

\* a pass of read_line that stays on the byte it has tested
ReadLineIterationStays(c, start, line, env) ==
    IF c.f.buf_i_ = c.f.buf_size_
    THEN LET line1 == line \o Span(c.mem, start, USub(c.f.buf_i_, start), env)
             r == RawRead(c, c.f.buf_cap_, env)
         IN  IF r.status # "ok" THEN Result(r.c, "error", r.err, 0, line1)
             ELSE LET c1 == [r.c EXCEPT !.f.buf_size_ = r.n, !.f.buf_i_ = 0]
                  IN  IF r.n = 0
                      THEN Result(c1, "ok", "none", IF line1 = <<>> THEN 0 ELSE 1, line1)
                      ELSE ReadLineTest(c1, 0, line1, env)
    ELSE LET t == ReadLineTest(c, start, line, env)
         IN  IF t.status = "more" THEN [t EXCEPT !.c = c] ELSE t

\* one pass through the body of the while (true) of file::read_line
ReadLineIteration(c, start, line, env) ==
    IF c.f.buf_i_ = c.f.buf_size_
    THEN LET line1 == line \o Span(c.mem, start, USub(c.f.buf_i_, start), env)
             r == RawRead(c, c.f.buf_cap_, env)
         IN  IF r.status # "ok" THEN Result(r.c, "error", r.err, 0, line1)
             ELSE LET c1 == [r.c EXCEPT !.f.buf_size_ = r.n, !.f.buf_i_ = 0]
                  IN  IF r.n = 0
                      THEN Result(c1, "ok", "none", IF line1 = <<>> THEN 0 ELSE 1, line1)
                      ELSE ReadLineTest(c1, 0, line1, env)
    ELSE ReadLineTest(c, start, line, env)

\* the test of while (written != count) in file::write and one pass through
\* its body
WriteIteration(c, buffer, written, env) ==
    IF written = Len(buffer) THEN Result(c, "ok", "none", written, <<>>)
    ELSE LET cap_remaining == USub(c.f.buf_cap_, c.f.buf_i_)
             copy_size == Min(USub(Len(buffer), written), cap_remaining)
         IN  IF ~InBounds(c.mem, c.f.buf_i_, copy_size)
             THEN Result(c, "ub", "none", written, <<>>)
             ELSE
             LET c1 == [c EXCEPT !.mem = CopyIn(c.mem, c.f.buf_i_,
                                                SubSeq(buffer, written + 1, written + copy_size)),
                                 !.f.buf_i_ = @ + copy_size]
                 written1 == written + copy_size
             IN  IF c1.f.buf_i_ = c1.f.buf_cap_
                 THEN LET res == Flush(c1, env)
                      IN  IF res.status # "ok" THEN Result(res.c, "error", res.err, 0, <<>>)
                          ELSE Result(res.c, "more", "none", written1, <<>>)
                 ELSE Result(c1, "more", "none", written1, <<>>)

\* the file of the reading runs, and the calls made
LoopData == <<"a", LF, "a">>
CountedOps == {"read", "read_bytes", "read_into_capacity"}
LoopCalls ==
    [op : {"read", "read_bytes"}, arg : -1..MaxCount]
    \cup [op : {"read_into_capacity"}, arg : 0..MaxVecCap]
    \cup [op : {"read_line"}, arg : {0}]
    \cup [op : {"write"}, arg : FailBuffers]

\* what the OS may do during one pass: a raw call moves one byte or all the
\* bytes asked for, or fails
LoopEnvs ==
    {OsEnv(chunk) : chunk \in Chunks(1)}
    \cup {[OsEnv(h[1].buf_cap_) EXCEPT !.failAt = 1, !.errno = "EINTR"]}

InitLoop ==
    /\ \E mode \in Modes, blksize \in BlockSizes :
          IsWorld(Open(BlankWorld(LoopData), 1, "p", mode, OpenEnv(blksize)).w)
    /\ ret = NoRet
    /\ iter = NoIter

\* The entry of a call: the test of can_read() or can_write(), and for a
\* negative count the remainder. ret.status = "running" while the call is in
\* its loop, with in ret.arg the count (or the data for write), in ret.n the
\* bytes read or written so far, in ret.out the bytes collected so far and in
\* ret.from the variable start of read_line.
LoopCallStep ==
    /\ ret.status # "running" /\ h[1].live /\ ~g.ub
    /\ \E call \in LoopCalls :
          LET c == Ctx(World, 1)
              rem == IF call.op \in {"read", "read_bytes"} /\ call.arg < 0
                     THEN Remaining(c) ELSE Result(c, "ok", "none", call.arg, <<>>)
              able == IF call.op = "write" THEN can_write(c.f) ELSE can_read(c.f)
              failed == [NoRet EXCEPT !.op = call.op, !.hid = 1, !.arg = call.arg,
                                      !.status = "error"]
          IN  /\ call.op = "write"
                 => Len(c.data) + c.f.buf_i_ + Len(call.arg) <= MaxWriteLen + 2
              /\ ret' = IF ~able THEN [failed EXCEPT !.err = "bad_file"]
                        ELSE IF rem.status # "ok" THEN [failed EXCEPT !.err = rem.err]
                        ELSE IF call.op # "write" /\ rem.n < 0 THEN [failed EXCEPT !.err = "io"]
                        ELSE [NoRet EXCEPT !.op = call.op, !.hid = 1, !.status = "running",
                                           !.arg = IF call.op = "write" THEN call.arg ELSE rem.n,
                                           !.from = IF call.op = "read_line" THEN c.f.buf_i_
                                                    ELSE 0]
    /\ UNCHANGED <<disk, fdt, heap, h, g, iter>>

\* one pass r through the loop of the running call
LoopPass(r) ==
    \E w1 \in {Put(World, 1, r.c)} :
    LET more == r.status = "more"
        line == ret.op = "read_line"
    IN  /\ disk' = w1.disk
        /\ fdt' = w1.fdt
        /\ heap' = w1.heap
        /\ h' = w1.h
        /\ g' = [g EXCEPT !.ub = @ \/ r.status \in {"ub", "throw"}]
        /\ ret' = [ret EXCEPT !.status = IF more THEN "running" ELSE r.status,
                              !.err = r.err,
                              !.n = IF more /\ line THEN 0 ELSE r.n,
                              !.out = r.out,
                              !.from = IF more /\ line THEN r.n ELSE @]
        /\ iter' = iter

LoopReadStep ==
    /\ ret.status = "running" /\ ret.op \in CountedOps
    /\ \E env \in LoopEnvs :
          \E r \in {ReadIteration(Ctx(World, 1), ret.arg, ret.n, ret.out, env)} : LoopPass(r)
LoopReadLineStep ==
    /\ ret.status = "running" /\ ret.op = "read_line"
    /\ \E env \in LoopEnvs :
          \E r \in {ReadLineIteration(Ctx(World, 1), ret.from, ret.out, env)} : LoopPass(r)
LoopWriteStep ==
    /\ ret.status = "running" /\ ret.op = "write"
    /\ \E env \in LoopEnvs :
          \E r \in {WriteIteration(Ctx(World, 1), ret.arg, ret.n, env)} : LoopPass(r)

NextLoop ==
    \/ LoopCallStep
    \/ LoopReadStep
    \/ LoopReadLineStep
    \/ LoopWriteStep

\* the thread that made the call goes on executing its loop
SpecLoop ==
    /\ InitLoop /\ [][NextLoop]_vars
    /\ WF_vars(LoopReadStep) /\ WF_vars(LoopReadLineStep) /\ WF_vars(LoopWriteStep)

\* r, or what the rest of the loop returns after a pass r that goes round again
Unfold(r, rest) == IF r.status = "more" THEN rest ELSE r

\* the passes are the bodies of the loops of the calls: a loop returns what its
\* first pass returns, or what the loop returns after that pass
LoopBodiesAgree ==
    (ret.status = "running" /\ ~g.ub)
    => \A env \in LoopEnvs :
          LET c == Ctx(World, 1)
              r == ReadIteration(c, ret.arg, ret.n, ret.out, env)
              l == ReadLineIteration(c, ret.from, ret.out, env)
              w == WriteIteration(c, ret.arg, ret.n, env)
              cap == ReadIntoCapacityLoop(c, ret.arg, ret.n, ret.n, ret.out, env)
              capRest == Unfold(r, ReadIntoCapacityLoop(r.c, ret.arg, r.n, r.n, r.out, env))
          IN  /\ ret.op \in {"read", "read_bytes"}
                 => /\ ReadStrLoop(c, ret.arg, ret.n, ret.out, env)
                       = Unfold(r, ReadStrLoop(r.c, ret.arg, r.n, r.out, env))
                    /\ ReadBytesLoop(c, ret.arg, ret.n, ret.out, env)
                       = Unfold(r, ReadBytesLoop(r.c, ret.arg, r.n, r.out, env))
              /\ ret.op = "read_into_capacity"
                 => /\ cap.c = capRest.c /\ cap.status = capRest.status
                    /\ cap.n = capRest.n /\ cap.err = capRest.err
                    /\ cap.status = "ok" => cap.out = capRest.out
              /\ ret.op = "read_line"
                 => ReadLineLoop(c, ret.from, ret.out, env)
                    = Unfold(l, ReadLineLoop(l.c, l.n, l.out, env))
              /\ ret.op = "write"
                 => WriteLoop(c, ret.arg, ret.n, env)
                    = Unfold(w, WriteLoop(w.c, ret.arg, w.n, env))

\* a pass copied a byte of the call's data, or moved buf_i over a byte of the line
Copied == ret'.n > ret.n \/ (ret.op = "read_line" /\ h'[1].buf_i_ = h[1].buf_i_ + 1)
\* a raw read or write moved bytes between the file and the buffer
Transferred == fdt'[h[1].fd_].off > fdt[h[1].fd_].off \/ disk' # disk
\* the loop ended: the count was met, the line ended, a refill returned 0 or a
\* raw call failed
Ended ==
    /\ ret'.status # "running"
    /\ \/ ret'.status = "error" /\ ret'.err = "interrupted"
       \/ /\ ret'.status = "ok"
          /\ \/ ret.op \in CountedOps /\ ret'.n = ret.arg
             \/ ret.op = "write" /\ ret'.n = Len(ret.arg)
             \/ ret.op = "read_line" /\ ret'.n = 1 /\ h'[1].buf_i_ > 0
             \/ ret.op # "write" /\ h'[1].buf_size_ = 0 /\ h'[1].buf_i_ = 0

\* C39: on a finite file, with buf_cap >= 1, every call of read, read_bytes,
\* read_line, read_into_capacity and write terminates; every pass through its
\* loop copies at least one byte, moves bytes through a raw call, or ends the
\* loop, and the loop ends only when the count is met, the line is complete, a
\* refill returned 0 or a raw call failed.
C39_CallsTerminate ==
    /\ []LoopBodiesAgree
    /\ [][ret.status = "running" => (Copied \/ Transferred \/ Ended)]_vars
    /\ (ret.status = "running") ~> (ret.status # "running")

\* a read of two bytes that took three passes: raw reads of one byte each
C39_Witness ==
    /\ ret.op = "read" /\ ret.status = "ok" /\ ret.arg = 2 /\ ret.n = 2
    /\ ret.out = <<"a", LF>> /\ h[1].buf_cap_ >= 1
    /\ h[1].buf_size_ = 1 /\ h[1].buf_i_ = 1 /\ fdt[h[1].fd_].off = 2

====
